---- MODULE Spec2Model ----
(***************************************************************************)
(* The application assembly pipeline of apphub-app-creator: the generate   *)
(* runs (processAssets, GenerateAppsCloudLogging) with getOrCreate and     *)
(* register against the App Hub catalog, and the teardown (deleteApp with  *)
(* its two bounded errgroup fan-outs).                                     *)
(*                                                                         *)
(* Strings the code slices, splits or measures are sequences of runes      *)
(* (one-character strings); names the code only compares are TLA+ strings. *)
(***************************************************************************)
EXTENDS Integers, Sequences, FiniteSets, TLC

\* ------------------------------------------------------------------ bounds

\* Longest asset list a discovery call returns to a generate run.
MaxAssets == 2

\* Most children of one kind under the application handed to deleteApp.
MaxChildren == 5

\* Children one List page holds (the iterator fetches the next page lazily).
PageSize == 3

\* The lookup calls a run may issue for one resource.
MaxLookups == 3

\* --------------------------------------------------------- string helpers

\* strings.LastIndex(s, c) + 1 in Go's 0-based indexing: the 1-based position
\* of the last c in s, 0 when c does not occur.
LastIndex(s, c) ==
    LET hits == {i \in 1..Len(s) : s[i] = c}
    IN  IF hits = {} THEN 0 ELSE CHOOSE i \in hits : \A j \in hits : j <= i

\* s[strings.LastIndex(s, c)+1:]
AfterLast(s, c) == SubSeq(s, LastIndex(s, c) + 1, Len(s))

\* strings.Index(s, c) + 1: position of the first c in s, 0 when none.
FirstIndex(s, c) ==
    LET hits == {i \in 1..Len(s) : s[i] = c}
    IN  IF hits = {} THEN 0 ELSE CHOOSE i \in hits : \A j \in hits : i <= j

\* strings.Split(s, c): the segments between the separators, empty ones kept.
RECURSIVE Split(_, _)
Split(s, c) ==
    LET i == FirstIndex(s, c)
    IN  IF i = 0 THEN <<s>>
        ELSE <<SubSeq(s, 1, i - 1)>> \o Split(SubSeq(s, i + 1, Len(s)), c)

\* strings.ReplaceAll(s, old, new) for one-rune old and new.
ReplaceAll(s, old, new) == [i \in 1..Len(s) |-> IF s[i] = old THEN new ELSE s[i]]

\* strings.HasPrefix(s, prefix)
HasPrefix(s, prefix) == Len(s) >= Len(prefix) /\ SubSeq(s, 1, Len(prefix)) = prefix

\* strings.Contains(s, sub)
Contains(s, sub) ==
    \E i \in 0..(Len(s) - Len(sub)) : SubSeq(s, i + 1, i + Len(sub)) = sub

RECURSIVE Join(_, _)
\* The path made of the segments of segs, separated by c.
Join(segs, c) ==
    IF Len(segs) = 0 THEN <<>>
    ELSE IF Len(segs) = 1 THEN segs[1]
    ELSE segs[1] \o <<c>> \o Join(Tail(segs), c)

\* ------------------------------------------------- registration identifiers

truncateNameMaxLen == 63
serviceWorkloadIdMaxLen == 50

\* truncateName: the first 63 runes of the display name.
truncateName(s) ==
    IF Len(s) > truncateNameMaxLen THEN SubSeq(s, 1, truncateNameMaxLen) ELSE s

\* getServiceWorkloadId: the display name (at most 50 runes, "_" -> "-"), "-",
\* and the part of the twin id after its last "-"; the id itself when it has none.
getServiceWorkloadId(id, assetName) ==
    LET index      == LastIndex(id, "-")
        secondPart == SubSeq(id, index + 1, Len(id))
        firstPart  == IF Len(assetName) > serviceWorkloadIdMaxLen
                      THEN SubSeq(assetName, 1, serviceWorkloadIdMaxLen)
                      ELSE assetName
    IN  IF index = 0 THEN id
        ELSE ReplaceAll(firstPart, "_", "-") \o <<"-">> \o secondPart

\* ------------------------------------------------------- classification

\* WORKLOADS of identifyServiceOrWorkload.
WORKLOADS ==
    {"apps.k8s.io/Deployment", "apps.k8s.io/DaemonSet", "apps.k8s.io/StatefulSet",
     "run.googleapis.com/Job", "compute.googleapis.com/InstanceGroup",
     "aiplatform.googleapis.com/ReasoningEngine"}

identifyServiceOrWorkload(assetType) ==
    IF assetType \in WORKLOADS THEN "discoveredWorkload" ELSE "discoveredService"

multiRegions ==
    {"us", "eu", "global", "eur4", "nam3", "nam4", "nam6", "nam7", "nam8", "asia", "asia1"}

regions ==
    {"africa-south1", "asia-east1", "asia-east2", "asia-northeast1", "asia-northeast2",
     "asia-northeast3", "asia-south1", "asia-south2", "asia-southeast1", "asia-southeast2",
     "australia-southeast1", "australia-southeast2", "europe-central2", "europe-north1",
     "europe-north2", "europe-southwest1", "europe-west1", "europe-west10", "europe-west12",
     "europe-west2", "europe-west3", "europe-west4", "europe-west6", "europe-west8",
     "europe-west9", "me-central1", "me-central2", "me-west1", "northamerica-northeast1",
     "northamerica-northeast2", "northamerica-south1", "southamerica-east1",
     "southamerica-west1", "us-central1", "us-east1", "us-east4", "us-east5", "us-south1",
     "us-west1", "us-west2", "us-west3", "us-west4"}

\* A describeRegion that takes every location as a region.
describeRegionAny(regionName) == regionName

\* describeRegion: "global" for a multi-region, the region itself for a supported
\* region, "" (the error return) for anything else.
describeRegion(regionName) ==
    IF regionName \in multiRegions THEN "global"
    ELSE IF regionName \in regions THEN regionName
    ELSE ""

\* ------------------------------------------------------------ the inputs

r_projects == <<"p","r","o","j","e","c","t","s">>
r_locations == <<"l","o","c","a","t","i","o","n","s">>
r_discoveredServices == <<"d","i","s","c","o","v","e","r","e","d","S","e","r","v","i","c","e","s">>
r_discoveredWorkloads == <<"d","i","s","c","o","v","e","r","e","d","W","o","r","k","l","o","a","d","s">>
r_mp == <<"m","p">>
r_web == <<"w","e","b">>

\* The resource name of a Cloud Asset search result: //host/project/name.
AssetName(host, project, name) == <<"/", "/">> \o Join(<<host, project, name>>, "/")

\* The name the catalog gives a discovered twin.
TwinName(location, collection, id) ==
    Join(<<r_projects, r_mp, r_locations, location, collection, id>>, "/")

r_uswest1 == <<"u","s","-","w","e","s","t","1">>
r_global == <<"g","l","o","b","a","l">>

\* The marker of a Kubernetes gateway in a resource URI.
gatewayMarker ==
    <<"g","a","t","e","w","a","y",".","n","e","t","w","o","r","k","i","n","g",".",
      "k","8","s",".","i","o">>

\* The resources discovery can return (assetpb.ResourceSearchResult, and the
\* logAsset of the log query with the map key as uri).  app is what the run's
\* getAppNameFunc closure returns for the resource; twin is the name of the
\* discovered twin the catalog holds for the resource's URI under twinLocation
\* (<<>>: the catalog holds none).
AssetPool ==
    <<  \* 1: a Cloud Run service
        [Name |-> AssetName(<<"r","u","n">>, <<"p">>, r_web),
         AssetType |-> "run.googleapis.com/Service", Location |-> "us-west1", app |-> "a1",
         twinLocation |-> "us-west1",
         twin |-> TwinName(r_uswest1, r_discoveredServices, <<"s","v","c","-","1">>)],
        \* 2: a service of another project with the same short name
        [Name |-> AssetName(<<"r","u","n">>, <<"q">>, r_web),
         AssetType |-> "run.googleapis.com/Service", Location |-> "us-west1", app |-> "a1",
         twinLocation |-> "us-west1",
         twin |-> TwinName(r_uswest1, r_discoveredServices, <<"a","p","i","-","1">>)],
        \* 3: a Kubernetes deployment, grouped into another application
        [Name |-> AssetName(<<"k","8","s">>, <<"p">>, <<"j","o","b","_","x">>),
         AssetType |-> "apps.k8s.io/Deployment", Location |-> "us-west1", app |-> "a2",
         twinLocation |-> "us-west1",
         twin |-> TwinName(r_uswest1, r_discoveredWorkloads, <<"w","l","-","2">>)],
        \* 4: a zonal resource (no supported region)
        [Name |-> AssetName(<<"g","c","e">>, <<"p">>, <<"v","m">>),
         AssetType |-> "compute.googleapis.com/InstanceGroup", Location |-> "us-west1-a",
         app |-> "a1", twinLocation |-> "us-west1-a",
         twin |-> TwinName(r_uswest1, r_discoveredWorkloads, <<"v","m","-","3">>)],
        \* 5: a multi-regional resource
        [Name |-> AssetName(<<"l","b">>, <<"p">>, <<"f","w","d">>),
         AssetType |-> "compute.googleapis.com/ForwardingRule", Location |-> "us",
         app |-> "a2", twinLocation |-> "global",
         twin |-> TwinName(r_global, r_discoveredServices, <<"f","w","d","4">>)],
        \* 6: a resource the catalog has not discovered
        [Name |-> AssetName(<<"r","u","n">>, <<"p">>, <<"n","e","w">>),
         AssetType |-> "run.googleapis.com/Service", Location |-> "us-west1", app |-> "a2",
         twinLocation |-> "us-west1", twin |-> <<>>],
        \* 7: a Kubernetes gateway of a regional cluster, discovered in "global"
        [Name |-> AssetName(gatewayMarker, <<"p">>, <<"g","w">>),
         AssetType |-> "gateway.networking.k8s.io/Gateway", Location |-> "us-west1",
         app |-> "a1", twinLocation |-> "global",
         twin |-> TwinName(r_global, r_discoveredServices, <<"g","w","-","5">>)],
        \* 8: a Kubernetes gateway the catalog has not discovered
        [Name |-> AssetName(gatewayMarker, <<"p">>, <<"g","x">>),
         AssetType |-> "gateway.networking.k8s.io/Gateway", Location |-> "us-west1",
         app |-> "a2", twinLocation |-> "global", twin |-> <<>>] >>

\* The application names the resolvers produce for the pool.
Apps == {"a1", "a2"}

\* --logs-label-value of the log entry point: its application name.
logLabelValue == "a1"

\* ------------------------------------------------------------------ state

\* ------------------------------------------------------------ getAppName

r_unknown == <<"u","n","k","n","o","w","n">>

r_wildcard == <<"*">>

\* asset.GetLabels()[labelKey]: the zero value for a key the map lacks.
LabelOf(asset, labelKey) ==
    IF labelKey \in DOMAIN asset.Labels THEN asset.Labels[labelKey] ELSE <<>>

\* A scan that compares the whole tag key, not its last path segment.
RECURSIVE TagValueInWholeKey(_, _)
TagValueInWholeKey(tags, tagKey) ==
    IF tags = <<>> THEN <<>>
    ELSE IF Head(tags).TagKey = tagKey
         THEN <<AfterLast(Head(tags).TagValue, "/")>>
    ELSE TagValueInWholeKey(Tail(tags), tagKey)

\* The loop over a list of tags of getAppName: the last path segment of the value
\* of the first tag whose key's last path segment is tagKey, <<>> when none is.
RECURSIVE TagValueIn(_, _)
TagValueIn(tags, tagKey) ==
    IF tags = <<>> THEN <<>>
    ELSE IF AfterLast(Head(tags).TagKey, "/") = tagKey
         THEN <<AfterLast(Head(tags).TagValue, "/")>>
    ELSE TagValueIn(Tail(tags), tagKey)

\* The loop over asset.GetEffectiveTags() and the tags of each.
RECURSIVE EffectiveTagValueIn(_, _)
EffectiveTagValueIn(details, tagKey) ==
    IF details = <<>> THEN <<>>
    ELSE IF TagValueIn(Head(details).EffectiveTags, tagKey) # <<>>
         THEN TagValueIn(Head(details).EffectiveTags, tagKey)
    ELSE EffectiveTagValueIn(Tail(details), tagKey)

\* getAppName with a wildcard value taken for the name like any other value.
getAppNameWildcardLiteral(labelKey, tagKey, contains, labelValue, tagValue, asset) ==
    IF labelValue # <<>> THEN labelValue
    ELSE IF tagValue # <<>> THEN tagValue
    ELSE IF labelKey # <<>> THEN LabelOf(asset, labelKey)
    ELSE IF tagKey # <<>>
         THEN IF TagValueIn(asset.Tags, tagKey) # <<>> THEN TagValueIn(asset.Tags, tagKey)[1]
              ELSE IF EffectiveTagValueIn(asset.EffectiveTags, tagKey) # <<>>
                   THEN EffectiveTagValueIn(asset.EffectiveTags, tagKey)[1]
              ELSE r_unknown
    ELSE contains

\* getAppName
getAppName(labelKey, tagKey, contains, labelValue, tagValue, asset) ==
    IF labelValue # <<>> /\ labelValue # r_wildcard THEN labelValue
    ELSE IF tagValue # <<>> /\ tagValue # r_wildcard THEN tagValue
    ELSE IF labelKey # <<>> THEN LabelOf(asset, labelKey)
    ELSE IF tagKey # <<>>
         THEN IF TagValueIn(asset.Tags, tagKey) # <<>> THEN TagValueIn(asset.Tags, tagKey)[1]
              ELSE IF EffectiveTagValueIn(asset.EffectiveTags, tagKey) # <<>>
                   THEN EffectiveTagValueIn(asset.EffectiveTags, tagKey)[1]
              ELSE r_unknown
    ELSE contains

\* ---------------------------------------------------- getAppNameFromAsset

\* isValidAppName: the pattern ^[a-z].
isValidAppName(s) ==
    /\ Len(s) > 0
    /\ s[1] \in {"a","b","c","d","e","f","g","h","i","j","k","l","m",
                 "n","o","p","q","r","s","t","u","v","w","x","y","z"}

\* NewProjectsClient and GetProject of getProjectID: what they can answer.
GetProjectOutcomes == {"OK", "NewProjectsClientFailed", "GetProjectFailed"}

\* getProjectResp.ProjectId of the project the resources are in.
r_projectId == <<"p","i","d">>

\* getProjectID, with the answer of the project-metadata lookup.
getProjectID(project, outcome) ==
    IF HasPrefix(project, r_projects \o <<"/">>)
    THEN IF outcome = "OK" THEN r_projectId ELSE r_unknown
    ELSE project

\* getAppNameFromAsset: the names it can return. Go ranges over the label map
\* in no fixed order, so any label that qualifies can be the one returned.
getAppNameFromAsset(asset, outcome) ==
    LET r_app == <<"a","p","p">>
        labels == {asset.Labels[k] : k \in {key \in DOMAIN asset.Labels :
                      /\ (Contains(key, r_app) \/
                          key = <<"a","p","p",".","k","u","b","e","r","n","e","t","e","s",
                                  ".","i","o","/","n","a","m","e">>)
                      /\ isValidAppName(asset.Labels[key])}}
        Value(tag) == AfterLast(tag.TagValue, "/")
        Hit(tag) == /\ Contains(AfterLast(tag.TagKey, "/"), r_app)
                    /\ isValidAppName(Value(tag))
        RECURSIVE First(_)
        First(tags) == IF tags = <<>> THEN <<>>
                       ELSE IF Hit(Head(tags)) THEN <<Value(Head(tags))>>
                       ELSE First(Tail(tags))
        RECURSIVE FirstEffective(_)
        FirstEffective(details) ==
            IF details = <<>> THEN <<>>
            ELSE IF First(Head(details).EffectiveTags) # <<>>
                 THEN First(Head(details).EffectiveTags)
            ELSE FirstEffective(Tail(details))
    IN  IF labels # {} THEN labels
        ELSE IF First(asset.Tags) # <<>> THEN {First(asset.Tags)[1]}
        ELSE IF FirstEffective(asset.EffectiveTags) # <<>>
             THEN {FirstEffective(asset.EffectiveTags)[1]}
        ELSE {getProjectID(asset.Project, outcome)}

\* ------------------------------------------------------------ searchAssets

\* var GKE_EXCLUSION_NAMESPACES
GKE_EXCLUSION_NAMESPACES ==
    << <<"k","u","b","e","-","s","y","s","t","e","m">>,
       <<"g","m","p","-","s","y","s","t","e","m">>,
       <<"g","k","e","-","m","a","n","a","g","e","d","-","c","i","m">>,
       <<"g","m","p","-","p","u","b","l","i","c">>,
       <<"g","k","e","-","m","a","n","a","g","e","d","-","s","y","s","t","e","m">>,
       <<"g","k","e","-","m","a","n","a","g","e","d","-","v","o","l","u","m","e","p","o","p","u","l","a","t","o","r">>,
       <<"k","u","b","e","-","n","o","d","e","-","l","e","a","s","e">>,
       <<"k","u","b","e","-","p","u","b","l","i","c">> >>

\* A location clause that names the first location only.
locationClauseFirstOnly(locs) == <<"l","o","c","a","t","i","o","n",":">> \o locs[1]

\* The location clause of searchAssets: fmt.Sprintf("location:(%s)",
\* strings.Join(locations, " OR ")), or "location:%s" for one location.
locationClause(locs) ==
    IF Len(locs) > 1
    THEN LET RECURSIVE JoinOr(_)
             JoinOr(l) == IF Len(l) = 1 THEN l[1]
                          ELSE l[1] \o <<" ","O","R"," ">> \o JoinOr(Tail(l))
         IN  <<"l","o","c","a","t","i","o","n",":","(">> \o JoinOr(locs) \o <<")">>
    ELSE <<"l","o","c","a","t","i","o","n",":">> \o locs[1]

\* queryParts of searchAssets.
queryParts(labelKey, labelValue, tagKey, tagValue, contains, locs) ==
    <<locationClause(locs)>> \o
    (IF labelKey # <<>>
     THEN IF labelValue # <<>>
          THEN <<<<"l","a","b","e","l","s",".">> \o labelKey \o <<":">> \o labelValue>>
          ELSE <<<<"l","a","b","e","l","s",":">> \o labelKey>>
     ELSE IF tagKey # <<>>
     THEN (IF tagValue # <<>>
           THEN <<<<"(","(","t","a","g","K","e","y","s",":">> \o tagKey \o <<" ","A","N","D"," ","t","a","g","V","a","l","u","e","s",":">> \o tagValue \o
                  <<")"," ","O","R"," ","(","e","f","f","e","c","t","i","v","e","T","a","g","K","e","y","s",":">> \o tagKey \o
                  <<" ","A","N","D"," ","e","f","f","e","c","t","i","v","e","T","a","g","V","a","l","u","e","s",":">> \o tagValue \o <<")",")">>>>
           ELSE <<<<"(","t","a","g","K","e","y","s",":">> \o tagKey \o <<" ","O","R"," ","e","f","f","e","c","t","i","v","e","T","a","g","K","e","y","s",":">> \o tagKey \o <<")">>>>)
          \o [i \in 1..Len(GKE_EXCLUSION_NAMESPACES) |->
                <<"N","O","T"," ","p","a","r","e","n","t","F","u","l","l","R","e","s","o","u","r","c","e","N","a","m","e"," ",":"," ","\"">> \o GKE_EXCLUSION_NAMESPACES[i] \o <<"\"">>]
     ELSE IF contains # <<>>
     THEN <<<<"n","a","m","e",":">> \o contains>>
     ELSE <<>>)

\* fullQuery := strings.Join(queryParts, " AND ")
RECURSIVE fullQuery(_)
fullQuery(parts) ==
    IF Len(parts) = 1 THEN parts[1]
    ELSE parts[1] \o <<" ","A","N","D"," ">> \o fullQuery(Tail(parts))

\* No call of a function on its own.
NoResolver == [pc |-> "idle"]

VARIABLES
    \* the inputs of the generate entry point
    entry,            \* "assets": an entry point ending in processAssets; "logs": GenerateAppsCloudLogging
    assets,           \* the discovered resources, as indices into AssetPool
    locations,        \* --locations
    reportOnly,       \* --report-only
    attributesValid,  \* whether newAttributesFromBytes parses the attributes file
    resolver,         \* a call of a function checked on its own (getAppName, ...): its
                      \* arguments, and its result once it returned
    \* the generate runs
    run,              \* per run: pc, idx, loc, discoveredName, generatedApplications, err, and
                      \* the history: trace (the calls issued), lastReg (the last
                      \* registration's answers and return), found (the twins looked up)
    \* the catalog (App Hub)
    applications,     \* the applications: [name, location, scope]
    registrations,    \* the services and workloads: [app, location, kind, id, discovered]
    faults,           \* how many calls the catalog has answered with an injected error: 0, 1, 2 (many)
    \* the teardown
    del               \* deleteApp and its current errgroup

vars == <<entry, assets, locations, reportOnly, attributesValid, resolver, run,
          applications, registrations, faults, del>>

inputs == <<entry, assets, locations, reportOnly, attributesValid, resolver>>

Runs == {1, 2}

\* ---------------------------------------------------------- the catalog

\* Errors a remote call can end with whatever the catalog holds: a gRPC status
\* the code has no branch for, PERMISSION_DENIED, and an error that is no gRPC status.
InjectedErrors == {"PermissionDenied", "Internal", "nonstatus"}

Min(a, b) == IF a < b THEN a ELSE b

\* faults after a call answered code: the injected errors so far (0, 1, many).
Counted(code) == IF code \in InjectedErrors THEN Min(faults + 1, 2) ELSE faults

AppExists(location, name) ==
    \E a \in applications : a.name = name /\ a.location = location

ChildrenOf(location, name, kind) ==
    {c \in registrations : c.app = name /\ c.location = location /\ c.kind = kind}

\* The discovered twin the catalog holds for a URI of a type under a location, <<>> when none.
TwinOf(location, uri, appHubType) ==
    LET hits == {i \in 1..Len(AssetPool) :
                    /\ AssetPool[i].Name = uri
                    /\ AssetPool[i].twinLocation = location
                    /\ AssetPool[i].twin # <<>>
                    /\ identifyServiceOrWorkload(AssetPool[i].AssetType) = appHubType}
    IN  IF hits = {} THEN <<>> ELSE AssetPool[CHOOSE i \in hits : TRUE].twin

\* LookupDiscoveredService / LookupDiscoveredWorkload: the twin, NOT_FOUND or an
\* empty response when the catalog holds none, or an injected error.
LookupOutcomes(location, uri, appHubType) ==
    (IF TwinOf(location, uri, appHubType) # <<>> THEN {"OK"} ELSE {"NotFound", "Empty"})
        \cup InjectedErrors

GetApplicationOutcomes(location, name) ==
    (IF AppExists(location, name) THEN {"OK"} ELSE {"NotFound"}) \cup InjectedErrors

\* CreateApplication and the wait on its operation: ALREADY_EXISTS once the
\* application exists (a concurrent create may win between submission and wait).
CreateApplicationOutcomes(location, name) ==
    (IF AppExists(location, name) THEN {"AlreadyExists"} ELSE {"OK"}) \cup InjectedErrors

\* CreateService / CreateWorkload at submission.
CreateChildOutcomes(location, name, kind, id) ==
    (IF ~AppExists(location, name) THEN {"NotFound"}
     ELSE IF \E c \in ChildrenOf(location, name, kind) : c.id = id THEN {"AlreadyExists"}
     ELSE {"OK"}) \cup InjectedErrors

\* The wait on a CreateService / CreateWorkload operation: FAILED_PRECONDITION
\* when the discovered twin is registered already (under any application).
CreateChildWaitOutcomes(location, name, kind, id, discovered) ==
    (IF ~AppExists(location, name) THEN {"NotFound"}
     ELSE IF \E c \in ChildrenOf(location, name, kind) : c.id = id THEN {"AlreadyExists"}
     ELSE IF \E c \in registrations : c.discovered = discovered THEN {"FailedPrecondition"}
     ELSE {"OK"}) \cup InjectedErrors

\* ------------------------------------------------------ the generate run

\* appLocation of the entry points: "global" for several locations, else the one given.
appLocation == IF Len(locations) > 1 THEN "global" ELSE locations[1]

\* An application that is REGIONAL wherever it is created.
appScopeRegionalOnly(location) == "REGIONAL"

\* appScope of getOrCreateAppHubApplication.
appScope(location) == IF location = "global" THEN "GLOBAL" ELSE "REGIONAL"

\* The resource a run is at.
Asset(r) == AssetPool[assets[run[r].idx]]

\* The URI the run looks up: asset.Name, or the key of the log asset map.
AssetURI(r) == Asset(r).Name

\* logAsset.Name: the service_name label, the last segment of the URI getAsset builds.
LogAssetName(r) == AfterLast(Asset(r).Name, "/")

AppHubType(r) ==
    IF entry = "logs" THEN "discoveredService"
    ELSE identifyServiceOrWorkload(Asset(r).AssetType)

\* appName: getAppNameFunc(asset), or logLabelValue.
AppName(r) == IF entry = "logs" THEN logLabelValue ELSE Asset(r).app

\* displayName handed to registerServiceWithApplication.
DisplayName(r) ==
    IF entry = "logs" THEN LogAssetName(r) ELSE AfterLast(Asset(r).Name, "/")

\* The name recorded in the report: asset.Name.
ReportName(r) == IF entry = "logs" THEN LogAssetName(r) ELSE Asset(r).Name

Kind(appHubType) == IF appHubType = "discoveredService" THEN "service" ELSE "workload"

\* A registration that submits CreateService whatever the classification.
CreateOpServiceOnly(appHubType) == "CreateService"

CreateOp(appHubType) ==
    IF appHubType = "discoveredService" THEN "CreateService" ELSE "CreateWorkload"

MutatingOps == {"CreateApplication", "CreateService", "CreateWorkload"}

Call(r, op, arg) == [op |-> op, i |-> run[r].idx, arg |-> arg]

NoReg == [kind |-> "-", submit |-> "-", wait |-> "-", result |-> "-"]

IdleRun ==
    [pc |-> "idle", idx |-> 1, loc |-> "", discoveredName |-> <<>>,
     generatedApplications |-> [a \in Apps |-> <<>>], err |-> "", trace |-> <<>>,
     lastReg |-> NoReg, found |-> {}, lookupErr |-> <<>>, catalogBefore |-> <<>>]

\* return generatedApplications, fmt.Errorf(msg): the run ends with an error.
Stop(rec, msg) == [rec EXCEPT !.pc = "done", !.err = msg]

\* The loop goes on to the next resource.
Continue(rec) == [rec EXCEPT !.pc = "loop", !.idx = @ + 1]

\* A dry run that mutates all the same.
MutateAlways(dry) == TRUE

\* if !reportOnly
ShouldMutate(dry) == ~dry

\* A report that puts the newest triple first.
RecordFirst(r, report, name) ==
    LET triple == <<AfterLast(name, "/"), AppHubType(r), ReportName(r)>>
    IN  [report EXCEPT ![AppName(r)] = triple \o @]

\* A report that keeps only the newest triple of an application.
RecordReplacing(r, report, name) ==
    LET triple == <<AfterLast(name, "/"), AppHubType(r), ReportName(r)>>
    IN  [report EXCEPT ![AppName(r)] = triple]

\* A report that records a triple only when the run mutates.
RecordUnlessDry(r, report, name) ==
    LET triple == <<AfterLast(name, "/"), AppHubType(r), ReportName(r)>>
    IN  IF reportOnly THEN report ELSE [report EXCEPT ![AppName(r)] = @ \o triple]

\* The report after the triple of the resource is recorded: appended by
\* processAssets, assigned (replacing the list) by GenerateAppsCloudLogging.
Record(r, report, name) ==
    LET triple == <<AfterLast(name, "/"), AppHubType(r), ReportName(r)>>
    IN  [report EXCEPT ![AppName(r)] = IF entry = "logs" THEN triple ELSE @ \o triple]

\* An entry point that hands an empty result to processAssets.
NoAssetsIgnored(list) == FALSE

\* if len(assets) == 0
NoAssets(list) == Len(list) = 0

\* The entry point after discovery: an empty result is an error.
Discover(r) ==
    /\ run[r].pc = "start"
    /\ run' = [run EXCEPT ![r] =
                 IF NoAssets(assets) THEN Stop(@, "no assets found that matched the filter")
                 ELSE [@ EXCEPT !.pc = "loop", !.idx = 1]]
    /\ UNCHANGED <<inputs, applications, registrations, faults, del>>

\* for _, asset := range assets: the end of the loop, or region normalization.
NextAsset(r) ==
    /\ run[r].pc = "loop"
    /\ run' = [run EXCEPT ![r] =
                 IF @.idx > Len(assets) THEN [@ EXCEPT !.pc = "done"]
                 ELSE IF entry = "logs"
                      THEN [@ EXCEPT !.pc = "lookup", !.loc = Asset(r).Location]
                 ELSE LET assetRegion == describeRegion(Asset(r).Location)
                      IN  IF assetRegion = "" THEN Continue(@)
                          ELSE IF assetRegion = "global" /\ appLocation # "global"
                               THEN Continue(@)
                          ELSE [@ EXCEPT !.pc = "lookup", !.loc = assetRegion]]
    /\ UNCHANGED <<inputs, applications, registrations, faults, del>>

\* The messages of the errors lookupDiscoveredServiceOrWorkload returns (without the
\* wrapped cause and the URI).
e_permissionPrefix ==
    <<"p","e","r","m","i","s","s","i","o","n"," ","d","e","n","i","e","d",":"," ","e","n",
      "s","u","r","e"," ","t","h","e"," ","u","s","e","r"," ","h","a","s"," ","t","h","e",
      " ","'">>

e_permissionSuffix ==
    <<"'"," ","p","e","r","m","i","s","s","i","o","n"," ","o","n"," ","t","h","e"," ","p",
      "r","o","j","e","c","t">>

p_discoveredServicesList ==
    <<"a","p","p","h","u","b",".","d","i","s","c","o","v","e","r","e","d","S","e","r","v",
      "i","c","e","s",".","l","i","s","t">>

p_discoveredWorkloadsList ==
    <<"a","p","p","h","u","b",".","d","i","s","c","o","v","e","r","e","d","W","o","r","k",
      "l","o","a","d","s",".","l","i","s","t">>

e_lookupFailedCode ==
    <<"a","p","p"," ","h","u","b"," ","l","o","o","k","u","p"," ","A","P","I"," ","f","a",
      "i","l","e","d"," ","(","C","o","d","e",")">>

e_lookupFailed ==
    <<"a","p","p"," ","h","u","b"," ","l","o","o","k","u","p"," ","A","P","I"," ","f","a",
      "i","l","e","d">>

e_notFoundForURI ==
    <<"n","o","t"," ","f","o","u","n","d"," ","f","o","r"," ","U","R","I">>

\* A lookup that names the service permission for every type.
lookupPermissionServiceOnly(appHubType) == p_discoveredServicesList

\* permission of lookupDiscoveredServiceOrWorkload.
lookupPermission(appHubType) ==
    IF appHubType = "discoveredWorkload" THEN p_discoveredWorkloadsList
    ELSE p_discoveredServicesList

\* The error lookupDiscoveredServiceOrWorkload returns for a response that is
\* not a twin (and not the NOT_FOUND of a gateway URI, which is retried).
lookupError(code, appHubType) ==
    CASE code = "Empty" -> e_notFoundForURI
      [] code = "PermissionDenied" ->
            e_permissionPrefix \o lookupPermission(appHubType) \o e_permissionSuffix
      [] code = "nonstatus" -> e_lookupFailed
      [] OTHER -> e_lookupFailedCode

\* The loop after a lookup error: a warning, discoveredName stays "" and the
\* body is skipped.
LookupFailed(rec) == Continue(rec)

\* The lookup calls the run has issued for its i-th resource.
LookupCalls(r, i) ==
    {k \in 1..Len(run[r].trace) : run[r].trace[k].op = "Lookup" /\ run[r].trace[k].i = i}

\* One lookup call of lookupDiscoveredServiceOrWorkload and what follows its
\* return in the loop: the report entry and the dry-run test.
Lookup(r) ==
    /\ run[r].pc = "lookup"
    /\ Cardinality(LookupCalls(r, run[r].idx)) < MaxLookups
    /\ \E code \in LookupOutcomes(run[r].loc, AssetURI(r), AppHubType(r)) :
          LET name   == IF code = "OK" THEN TwinOf(run[r].loc, AssetURI(r), AppHubType(r))
                        ELSE <<>>
              called == [run[r] EXCEPT !.trace = Append(@, Call(r, "Lookup", run[r].loc))]
          IN  /\ faults' = Counted(code)
              /\ run' = [run EXCEPT ![r] =
                    IF code = "NotFound" /\ Contains(AssetURI(r), gatewayMarker)
                    THEN [called EXCEPT !.loc = "global"]
                    ELSE IF name = <<>>
                         THEN LookupFailed([called EXCEPT
                                          !.lookupErr = lookupError(code, AppHubType(r))])
                    ELSE LET seen == [called EXCEPT
                                        !.lookupErr = <<>>,
                                        !.discoveredName = name,
                                        !.found = @ \cup {[i |-> run[r].idx, name |-> name]},
                                        !.generatedApplications = Record(r, @, name)]
                         IN  IF ShouldMutate(reportOnly) THEN [seen EXCEPT !.pc = "get"]
                             ELSE Continue(seen)]
    /\ UNCHANGED <<inputs, applications, registrations, del>>

\* getOrCreateAppHubApplication creating on any error of the Get.
AfterGetCreatesOnError(code) == IF code = "OK" THEN "found" ELSE "create"

\* getOrCreateAppHubApplication creating whatever the Get answered.
AfterGetAlwaysCreate(code) == "create"

\* getOrCreateAppHubApplication after the Get: the application is returned, or
\* created after NOT_FOUND; any other error ends the call.
AfterGet(code) ==
    IF code = "OK" THEN "found"
    ELSE IF code = "NotFound" THEN "create"
    ELSE "fail"

\* The GetApplication call of getOrCreateAppHubApplication, with its answer.
GetCall(r, code) ==
    [op |-> "GetApplication", i |-> run[r].idx, arg |-> AppName(r), code |-> code]

Returned(rec, r) == [rec EXCEPT !.trace = Append(@, Call(r, "getOrCreate.ok", AppName(r)))]

GetApplication(r) ==
    /\ run[r].pc = "get"
    /\ \E code \in GetApplicationOutcomes(appLocation, AppName(r)) :
          LET called == [run[r] EXCEPT !.trace = Append(@, GetCall(r, code))]
          IN  /\ faults' = Counted(code)
              /\ run' = [run EXCEPT ![r] =
                    CASE AfterGet(code) = "found" -> [Returned(called, r) EXCEPT !.pc = "register"]
                      [] AfterGet(code) = "create" ->
                            IF attributesValid THEN [called EXCEPT !.pc = "create"]
                            ELSE Stop(called, "error creating application")
                      [] OTHER -> Stop(called, "error creating application")]
    /\ UNCHANGED <<inputs, applications, registrations, del>>

\* if err != nil after CreateApplication and after op.Wait: any error ends the call.
CreateSucceeded(code) == code = "OK"

CreateApplication(r) ==
    /\ run[r].pc = "create"
    /\ \E code \in CreateApplicationOutcomes(appLocation, AppName(r)) :
          LET called == [run[r] EXCEPT !.trace = Append(@, Call(r, "CreateApplication", AppName(r)))]
          IN  /\ faults' = Counted(code)
              /\ run' = [run EXCEPT ![r] =
                    IF CreateSucceeded(code) THEN [called EXCEPT !.pc = "createWait"]
                    ELSE Stop(called, "error creating application")]
    /\ UNCHANGED <<inputs, applications, registrations, del>>

CreateApplicationWait(r) ==
    /\ run[r].pc = "createWait"
    /\ \E code \in CreateApplicationOutcomes(appLocation, AppName(r)) :
          /\ faults' = Counted(code)
          /\ applications' =
                IF code = "OK"
                THEN applications \cup {[name |-> AppName(r), location |-> appLocation,
                                         scope |-> appScope(appLocation)]}
                ELSE applications
          /\ run' = [run EXCEPT ![r] =
                IF CreateSucceeded(code) THEN [Returned(@, r) EXCEPT !.pc = "register"]
                ELSE Stop(@, "error creating application")]
    /\ UNCHANGED <<inputs, registrations, del>>

\* ------------------------------------------- registerServiceWithApplication

\* The workload branch without the FAILED_PRECONDITION reconciliation.
RegisterAfterWaitStrictWorkload(appHubType, code) ==
    IF code = "OK" THEN "success"
    ELSE IF appHubType = "discoveredService" /\ code = "FailedPrecondition" THEN "success"
    ELSE "fail"

\* A registration that returns the error on ALREADY_EXISTS too.
RegisterAfterSubmitStrict(appHubType, code) ==
    IF code = "OK" THEN "wait" ELSE "fail"

\* After CreateService / CreateWorkload returned: wait on the operation, or
\* return nil on ALREADY_EXISTS, or return the error.
RegisterAfterSubmit(appHubType, code) ==
    IF appHubType = "discoveredService"
    THEN IF code = "OK" THEN "wait"
         ELSE IF code = "AlreadyExists" THEN "success"
         ELSE "fail"
    ELSE IF code = "OK" THEN "wait"
         ELSE IF code = "AlreadyExists" THEN "success"
         ELSE "fail"

\* After op.Wait returned: nil on success and on FAILED_PRECONDITION, else the error.
RegisterAfterWait(appHubType, code) ==
    IF appHubType = "discoveredService"
    THEN IF code = "OK" THEN "success"
         ELSE IF code = "FailedPrecondition" THEN "success"
         ELSE "fail"
    ELSE IF code = "OK" THEN "success"
         ELSE IF code = "FailedPrecondition" THEN "success"
         ELSE "fail"

\* id := getServiceWorkloadId(parts[5], truncateName(displayName))
RegistrationId(discoveredName, displayName) ==
    getServiceWorkloadId(Split(discoveredName, "/")[6], truncateName(displayName))

Registration(r) ==
    [app |-> AppName(r), location |-> appLocation, kind |-> Kind(AppHubType(r)),
     id |-> RegistrationId(run[r].discoveredName, DisplayName(r)),
     discovered |-> run[r].discoveredName]

\* A loop that logs a failed registration and goes on.
AfterRegisterContinues(rec, result) ==
    Continue([rec EXCEPT !.lastReg.result = IF result = "success" THEN "ok" ELSE "err"])

\* What the loop does with the return of registerServiceWithApplication.
AfterRegister(rec, result) ==
    IF result = "success" THEN Continue([rec EXCEPT !.lastReg.result = "ok"])
    ELSE Stop([rec EXCEPT !.lastReg.result = "err"], "error registering service")

\* registerServiceWithApplication up to the return of the create call.
RegisterSubmit(r) ==
    /\ run[r].pc = "register"
    /\ LET begun == [run[r] EXCEPT !.lastReg = [NoReg EXCEPT !.kind = AppHubType(r)]]
       IN  IF Len(Split(run[r].discoveredName, "/")) < 6 \/ ~attributesValid
           THEN /\ run' = [run EXCEPT ![r] = AfterRegister(begun, "fail")]
                /\ UNCHANGED faults
           ELSE \E code \in CreateChildOutcomes(appLocation, AppName(r), Kind(AppHubType(r)),
                                                Registration(r).id) :
                  LET called == [begun EXCEPT
                                    !.trace = Append(@, Call(r, CreateOp(AppHubType(r)), AppName(r))),
                                    !.lastReg.submit = code]
                  IN  /\ faults' = Counted(code)
                      /\ run' = [run EXCEPT ![r] =
                            IF RegisterAfterSubmit(AppHubType(r), code) = "wait"
                            THEN [called EXCEPT !.pc = "registerWait"]
                            ELSE AfterRegister(called, RegisterAfterSubmit(AppHubType(r), code))]
    /\ UNCHANGED <<inputs, applications, registrations, del>>

\* op.Wait of the registration and the return.
RegisterWait(r) ==
    /\ run[r].pc = "registerWait"
    /\ \E code \in CreateChildWaitOutcomes(appLocation, AppName(r), Kind(AppHubType(r)),
                                           Registration(r).id, run[r].discoveredName) :
          /\ faults' = Counted(code)
          /\ registrations' =
                IF code = "OK" THEN registrations \cup {Registration(r)} ELSE registrations
          /\ run' = [run EXCEPT ![r] =
                AfterRegister([@ EXCEPT !.lastReg.wait = code],
                              RegisterAfterWait(AppHubType(r), code))]
    /\ UNCHANGED <<inputs, applications, del>>

Generate(r) ==
    \/ Discover(r)
    \/ NextAsset(r)
    \/ Lookup(r)
    \/ GetApplication(r)
    \/ CreateApplication(r)
    \/ CreateApplicationWait(r)
    \/ RegisterSubmit(r)
    \/ RegisterWait(r)

\* ------------------------------------------------------------ the teardown

\* const maxConcurrentDeletions of removeAllServices and removeAllWorkloads.
maxConcurrentDeletions == 4

GroupKinds == {"service", "workload"}

NoIter == [started |-> FALSE, items |-> <<>>, pos |-> 0, fetched |-> 0]

\* The loop of DeleteApp (mode "name") or DeleteAllApps (mode "all") over the
\* locations: the location it is at (idx), the applications still to delete
\* there (queue), the deleteApp invocations so far (calls) and what the
\* returned ones returned (results).
IdleLoop ==
    [pc |-> "idle", mode |-> "name", name |-> "", idx |-> 1, queue |-> <<>>,
     calls |-> <<>>, results |-> <<>>, err |-> ""]

\* del: deleteApp (pc, location, app, err), the removeAll loop it is in (kind,
\* iter), the errgroups (workers; cancelled and gerr per kind) and the history:
\* listedN and completedN (children returned by the iterator, deletions waited
\* for with success, per kind), failureKind (the kind whose deletion first
\* failed while deleteApp ran), lateDeleted (a child was deleted whose Delete
\* was submitted after a deletion had failed), issuedAfterCancel (a Delete was
\* accepted with the group's context cancelled), appDeleteIssued.
IdleDel ==
    [pc |-> "idle", location |-> "", app |-> "", err |-> "", kind |-> "service",
     iter |-> NoIter, workers |-> {},
     cancelled |-> [k \in GroupKinds |-> FALSE],
     gerr |-> [k \in GroupKinds |-> "-"],
     listedN |-> [k \in GroupKinds |-> 0],
     completedN |-> [k \in GroupKinds |-> 0],
     failureKind |-> "-",
     lateDeleted |-> FALSE, issuedAfterCancel |-> FALSE,
     appDeleteIssued |-> FALSE, loop |-> IdleLoop]

RECURSIVE SeqOf(_)
\* The elements of a finite set in the order a List call returns them.
SeqOf(S) ==
    IF S = {} THEN <<>>
    ELSE LET x == CHOOSE y \in S : TRUE IN <<x>> \o SeqOf(S \ {x})

\* deleteApp and its helpers treat every non-nil error alike, whatever its
\* code: one injected error stands for all of them.
DeleteErrors == {"Internal"}

\* ListServices / ListWorkloads, one page fetch: the children of an existing
\* application; NOT_FOUND or an empty list for one that does not exist.
ListOutcomes(location, name) ==
    (IF AppExists(location, name) THEN {"OK"} ELSE {"OK", "NotFound"}) \cup DeleteErrors

\* DeleteService / DeleteWorkload at submission.
DeleteChildOutcomes(location, name, kind, id) ==
    (IF \E c \in ChildrenOf(location, name, kind) : c.id = id THEN {"OK"} ELSE {"NotFound"})
        \cup DeleteErrors

\* The wait on a delete operation.
DeleteWaitOutcomes == {"OK"} \cup DeleteErrors

\* DeleteApplication: rejected while the application owns children.
DeleteApplicationOutcomes(location, name) ==
    (IF ~AppExists(location, name) THEN {"NotFound"}
     ELSE IF \E k \in GroupKinds : ChildrenOf(location, name, k) # {}
          THEN {"FailedPrecondition"}
     ELSE {"OK"}) \cup DeleteErrors

WorkersOf(kind) == {w \in del.workers : w.kind = kind}

\* return fmt.Errorf(...) of deleteApp.
DelStop(rec, msg) == [rec EXCEPT !.pc = "done", !.err = msg]

\* deleteApp is called: removeAllServices sets up its group and iterator.
DeleteAppStart(location, name) ==
    /\ del.pc = "idle"
    /\ \A r \in Runs : run[r].pc \in {"idle", "done"}
    /\ del' = [del EXCEPT !.pc = "list", !.location = location, !.app = name,
                          !.kind = "service", !.iter = NoIter]
    /\ UNCHANGED <<inputs, run, applications, registrations, faults>>

\* A worker or iterator that was handed context.Background(), not the group's context.
CtxNeverDone(kind) == FALSE

\* ctx.Err() != nil for the context of the kind's errgroup.
CtxDone(kind) == del.cancelled[kind]

\* Next() with no buffered item left: the iterator fetches a page with the
\* group's context.  An error ends removeAll at once, without g.Wait().
ListFetch ==
    /\ del.pc = "list"
    /\ del.iter.pos = del.iter.fetched
    /\ ~del.iter.started \/ del.iter.fetched < Len(del.iter.items)
    /\ IF CtxDone(del.kind)
       THEN /\ del' = DelStop(del, "list")
            /\ UNCHANGED faults
       ELSE \E code \in ListOutcomes(del.location, del.app) :
              /\ faults' = Counted(code)
              /\ del' =
                   IF code # "OK" THEN DelStop(del, "list")
                   ELSE LET items == IF del.iter.started THEN del.iter.items
                                     ELSE SeqOf({c.id : c \in ChildrenOf(del.location, del.app, del.kind)})
                        IN  [del EXCEPT !.iter =
                               [started |-> TRUE, items |-> items, pos |-> @.pos,
                                fetched |-> Min(Len(items), @.fetched + PageSize)]]
    /\ UNCHANGED <<inputs, run, applications, registrations>>

\* g.Go with slots that are never given back.
SlotFreeNeverReleased(kind) == del.listedN[kind] < maxConcurrentDeletions

\* g.Go without the limit.
SlotFreeUnlimited(kind) == TRUE

\* g.Go blocks until fewer than the limit of the group's goroutines are active.
SlotFree(kind) == Cardinality(WorkersOf(kind)) < maxConcurrentDeletions

\* Next() returns a buffered child and g.Go starts its worker.
Spawn ==
    /\ del.pc = "list"
    /\ del.iter.pos < del.iter.fetched
    /\ SlotFree(del.kind)
    /\ LET id == del.iter.items[del.iter.pos + 1]
       IN  del' = [del EXCEPT
                     !.iter.pos = @ + 1,
                     !.listedN[del.kind] = @ + 1,
                     !.workers = @ \cup {[kind |-> del.kind, id |-> id, st |-> "start",
                                          late |-> FALSE]}]
    /\ UNCHANGED <<inputs, run, applications, registrations, faults>>

\* Next() returns iterator.Done: the loop ends and g.Wait() is called.
ListDone ==
    /\ del.pc = "list"
    /\ del.iter.started
    /\ del.iter.pos = Len(del.iter.items)
    /\ del' = [del EXCEPT !.pc = "groupWait"]
    /\ UNCHANGED <<inputs, run, applications, registrations, faults>>

\* Worker w goes to state st.
Moved(rec, w, st) == [rec EXCEPT !.workers = (@ \ {w}) \cup {[w EXCEPT !.st = st]}]

\* A deletion of worker w failed on its own (not by cancellation).
Failed(rec, w) ==
    [Moved(rec, w, "failed") EXCEPT
        !.failureKind = IF @ = "-" /\ rec.pc # "done" THEN w.kind ELSE @]

\* A worker calls DeleteService / DeleteWorkload with the group's context.
WorkerSubmit(w) ==
    /\ w \in del.workers
    /\ w.st = "start"
    /\ IF CtxDone(w.kind)
       THEN /\ del' = Moved(del, w, "aborted")
            /\ UNCHANGED faults
       ELSE \E code \in DeleteChildOutcomes(del.location, del.app, w.kind, w.id) :
              /\ faults' = Counted(code)
              /\ del' = IF code = "OK"
                        THEN [del EXCEPT
                                !.workers = (@ \ {w}) \cup
                                    {[w EXCEPT !.st = "wait", !.late = del.failureKind # "-"]},
                                !.issuedAfterCancel = @ \/ del.cancelled[w.kind]]
                        ELSE Failed(del, w)
    /\ UNCHANGED <<inputs, run, applications, registrations>>

Without(kind, id) ==
    {c \in registrations :
        ~(c.app = del.app /\ c.location = del.location /\ c.kind = kind /\ c.id = id)}

\* op.Wait(ctx) returns: the operation's result, or the context's error once
\* the group is cancelled (the operation itself goes on in the catalog).  On
\* success the worker returns nil and its slot is free.
WorkerWait(w) ==
    /\ w \in del.workers
    /\ w.st = "wait"
    /\ IF CtxDone(w.kind)
       THEN /\ \E gone \in BOOLEAN :
                 /\ registrations' = IF gone THEN Without(w.kind, w.id) ELSE registrations
                 /\ del' = [Moved(del, w, "aborted") EXCEPT
                              !.lateDeleted = @ \/ (gone /\ w.late)]
            /\ UNCHANGED faults
       ELSE \E code \in DeleteWaitOutcomes :
              /\ faults' = Counted(code)
              /\ registrations' = IF code = "OK" THEN Without(w.kind, w.id) ELSE registrations
              /\ del' = IF code = "OK"
                        THEN [del EXCEPT
                                !.workers = @ \ {w},
                                !.completedN[w.kind] = @ + 1,
                                !.lateDeleted = @ \/ w.late]
                        ELSE Failed(del, w)
    /\ UNCHANGED <<inputs, run, applications>>

\* The worker's function has returned an error: errgroup keeps the first one
\* and cancels the group's context (errOnce), then frees the slot.
WorkerFinish(w) ==
    /\ w \in del.workers
    /\ w.st \in {"failed", "aborted"}
    /\ LET first == del.gerr[w.kind] = "-"
       IN  del' = [del EXCEPT
                     !.workers = @ \ {w},
                     !.gerr[w.kind] = IF first THEN w.st ELSE @,
                     !.cancelled[w.kind] = @ \/ first]
    /\ UNCHANGED <<inputs, run, applications, registrations, faults>>

\* g.Wait() returning without waiting for the goroutines.
WaitedNever(kind) == TRUE

\* g.Wait() returns once every goroutine of the group has returned.
Waited(kind) == WorkersOf(kind) = {}

\* deleteApp going on whatever removeAllServices / removeAllWorkloads returned.
GroupFailedIgnored(kind) == FALSE

\* if err != nil after removeAllServices / removeAllWorkloads.
GroupFailed(kind) == del.gerr[kind] # "-"

\* g.Wait() returns, and deleteApp goes on to the workloads, or to the
\* application, or returns the group's error.
GroupWait ==
    /\ del.pc = "groupWait"
    /\ Waited(del.kind)
    /\ del' = IF GroupFailed(del.kind) THEN DelStop(del, "group")
              ELSE IF del.kind = "service"
                   THEN [del EXCEPT !.pc = "list", !.kind = "workload", !.iter = NoIter]
              ELSE [del EXCEPT !.pc = "deleteApp"]
    /\ UNCHANGED <<inputs, run, applications, registrations, faults>>

DeleteApplication ==
    /\ del.pc = "deleteApp"
    /\ \E code \in DeleteApplicationOutcomes(del.location, del.app) :
          /\ faults' = Counted(code)
          /\ del' = IF code = "OK"
                    THEN [del EXCEPT !.pc = "deleteAppWait", !.appDeleteIssued = TRUE]
                    ELSE DelStop([del EXCEPT !.appDeleteIssued = TRUE], "application")
    /\ UNCHANGED <<inputs, run, applications, registrations>>

DeleteApplicationWait ==
    /\ del.pc = "deleteAppWait"
    /\ \E code \in DeleteWaitOutcomes :
          /\ faults' = Counted(code)
          /\ applications' =
                IF code = "OK"
                THEN {a \in applications : ~(a.name = del.app /\ a.location = del.location)}
                ELSE applications
          /\ del' = IF code = "OK" THEN [del EXCEPT !.pc = "done"]
                    ELSE DelStop(del, "application wait")
    /\ UNCHANGED <<inputs, run, registrations>>

Teardown ==
    \/ ListFetch
    \/ Spawn
    \/ ListDone
    \/ \E w \in del.workers : WorkerSubmit(w)
    \/ \E w \in del.workers : WorkerWait(w)
    \/ \E w \in del.workers : WorkerFinish(w)
    \/ GroupWait
    \/ DeleteApplication
    \/ DeleteApplicationWait

\* ------------------------------------------- DeleteApp and DeleteAllApps

\* DeleteApp (a name) or DeleteAllApps (mode "all") is called.
DeleteStart(mode, name) ==
    /\ del.pc = "idle"
    /\ del.loop.pc = "idle"
    /\ \A r \in Runs : run[r].pc \in {"idle", "done"}
    /\ del' = [del EXCEPT !.loop = [IdleLoop EXCEPT !.pc = "next", !.mode = mode, !.name = name]]
    /\ UNCHANGED <<inputs, run, applications, registrations, faults>>

\* deleteApp(apphubClient, managementProject, location, name) is entered.
Invoke(loop, name) ==
    [IdleDel EXCEPT
        !.pc = "list", !.location = locations[loop.idx], !.app = name,
        !.loop = [loop EXCEPT !.pc = "in",
                              !.calls = Append(@, [idx |-> loop.idx, app |-> name])]]

\* for _, location := range locations, in DeleteApp: the next location's
\* deleteApp, or the return after the last one.
LoopNextByName ==
    /\ del.loop.pc = "next"
    /\ del.loop.mode = "name"
    /\ del' = IF del.loop.idx > Len(locations) THEN [del EXCEPT !.loop.pc = "done"]
              ELSE Invoke(del.loop, del.loop.name)
    /\ UNCHANGED <<inputs, run, applications, registrations, faults>>

\* ListApplications of a location.
ListApplicationsOutcomes == {"OK"} \cup DeleteErrors

\* for _, location := range locations, in DeleteAllApps: the applications of
\* the next location are listed, or the function returns after the last one.
LoopNextAll ==
    /\ del.loop.pc = "next"
    /\ del.loop.mode = "all"
    /\ IF del.loop.idx > Len(locations)
       THEN /\ del' = [del EXCEPT !.loop.pc = "done"]
            /\ UNCHANGED faults
       ELSE \E code \in ListApplicationsOutcomes :
              /\ faults' = Counted(code)
              /\ del' = IF code = "OK"
                        THEN [del EXCEPT
                                !.loop.pc = "apps",
                                !.loop.queue =
                                    SeqOf({a.name : a \in {b \in applications :
                                              b.location = locations[del.loop.idx]}})]
                        ELSE [del EXCEPT !.loop.pc = "done", !.loop.err = "list applications"]
    /\ UNCHANGED <<inputs, run, applications, registrations>>

\* listApplications.Next(): deleteApp of the next application of the location,
\* or iterator.Done and the next location.
LoopApps ==
    /\ del.loop.pc = "apps"
    /\ del' = IF del.loop.queue = <<>>
              THEN [del EXCEPT !.loop.pc = "next", !.loop.idx = @ + 1]
              ELSE Invoke([del.loop EXCEPT !.queue = Tail(@)], Head(del.loop.queue))
    /\ UNCHANGED <<inputs, run, applications, registrations, faults>>

\* A loop that goes on to the next location whatever deleteApp returned.
LoopNeverAborts(err) == FALSE

\* if err = deleteApp(...); err != nil
LoopAborts(err) == err # ""

\* deleteApp has returned to the loop.
LoopReturn ==
    /\ del.loop.pc = "in"
    /\ del.pc = "done"
    /\ LET returned == [del.loop EXCEPT !.results = Append(@, del.err)]
       IN  del' = [del EXCEPT !.loop =
                     IF LoopAborts(del.err)
                     THEN [returned EXCEPT !.pc = "done", !.err = "deleteApp"]
                     ELSE IF del.loop.mode = "name"
                          THEN [returned EXCEPT !.pc = "next", !.idx = @ + 1]
                     ELSE [returned EXCEPT !.pc = "apps"]]
    /\ UNCHANGED <<inputs, run, applications, registrations, faults>>

DeleteLoop ==
    \/ \E mode \in {"name", "all"} : DeleteStart(mode, IF mode = "name" THEN "a1" ELSE "")
    \/ LoopNextByName
    \/ LoopNextAll
    \/ LoopApps
    \/ LoopReturn

\* --------------------------------------------------------- specifications

\* The catalogs a run can find: empty, the application a1 there already, and the
\* twins of resources 1 and 3 registered under an application of an earlier grouping.
PreCatalogs ==
    { [apps |-> {}, regs |-> {}],
      [apps |-> {[name |-> "a1", location |-> "us-west1", scope |-> "REGIONAL"]}, regs |-> {}],
      [apps |-> {[name |-> "old", location |-> "us-west1", scope |-> "REGIONAL"]},
       regs |-> {[app |-> "old", location |-> "us-west1", kind |-> "service",
                  id |-> <<"w","e","b","-","1">>, discovered |-> AssetPool[1].twin],
                 [app |-> "old", location |-> "us-west1", kind |-> "workload",
                  id |-> <<"j","o","b","-","x","-","2">>, discovered |-> AssetPool[3].twin]}] }

\* The asset lists of at most n resources, in the order of the pool; the log
\* query returns a map of Cloud Run services keyed by URI, so no URI twice.
AssetLists(n) ==
    {l \in UNION {[1..k -> 1..Len(AssetPool)] : k \in 0..n} :
        \A i, j \in 1..Len(l) : i < j => l[i] <= l[j]}

LogAssetLists(n) ==
    {l \in AssetLists(n) :
        /\ \A i \in 1..Len(l) : AssetPool[l[i]].AssetType = "run.googleapis.com/Service"
        /\ \A i, j \in 1..Len(l) : i # j => l[i] # l[j]}

LocationLists == {<<"us-west1">>, <<"us-west1", "us-east1">>, <<"global">>}

InitInputs ==
    /\ entry \in {"assets", "logs"}
    /\ assets \in (IF entry = "logs" THEN LogAssetLists(MaxAssets) ELSE AssetLists(MaxAssets))
    /\ locations \in LocationLists
    /\ reportOnly \in BOOLEAN
    /\ attributesValid \in BOOLEAN
    /\ resolver = NoResolver

\* One generate run against a catalog it finds.
Init ==
    /\ InitInputs
    /\ run = [r \in Runs |-> IF r = 1 THEN [IdleRun EXCEPT !.pc = "start"] ELSE IdleRun]
    /\ \E c \in PreCatalogs : applications = c.apps /\ registrations = c.regs
    /\ faults = 0
    /\ del = IdleDel

Next == \E r \in Runs : Generate(r)

Spec == Init /\ [][Next]_vars

\* Two generate runs with the same inputs at once, against an empty catalog.
InitConc ==
    /\ entry = "assets"
    /\ assets \in AssetLists(MaxAssets)
    /\ locations = <<"us-west1">>
    /\ reportOnly = FALSE
    /\ attributesValid = TRUE
    /\ resolver = NoResolver
    /\ run = [r \in Runs |-> [IdleRun EXCEPT !.pc = "start"]]
    /\ applications = {}
    /\ registrations = {}
    /\ faults = 0
    /\ del = IdleDel

SpecConc == InitConc /\ [][Next]_vars

\* A mutating generate run against an empty catalog, and deleteApp after it.
InitRoundTrip ==
    /\ entry = "assets"
    /\ assets \in AssetLists(MaxAssets)
    /\ locations \in LocationLists
    /\ reportOnly = FALSE
    /\ attributesValid = TRUE
    /\ resolver = NoResolver
    /\ run = [r \in Runs |-> IF r = 1 THEN [IdleRun EXCEPT !.pc = "start"] ELSE IdleRun]
    /\ applications = {}
    /\ registrations = {}
    /\ faults = 0
    /\ del = IdleDel

NextRoundTrip ==
    \/ \E r \in Runs : Generate(r)
    \/ \E a \in Apps : DeleteAppStart(appLocation, a)
    \/ Teardown

SpecRoundTrip == InitRoundTrip /\ [][NextRoundTrip]_vars

Digits == <<"1", "2", "3", "4", "5", "6", "7", "8", "9">>

\* n registrations of a kind under the application a1.
ChildrenUnder(kind, n) ==
    {[app |-> "a1", location |-> "us-west1", kind |-> kind,
      id |-> <<"c", Digits[k]>>, discovered |-> <<"t", Digits[k]>>] : k \in 1..n}

\* deleteApp of an application that owns up to MaxChildren services and workloads.
InitDel ==
    /\ entry = "assets"
    /\ assets = <<>>
    /\ locations = <<"us-west1">>
    /\ reportOnly = FALSE
    /\ attributesValid = TRUE
    /\ resolver = NoResolver
    /\ run = [r \in Runs |-> IdleRun]
    /\ applications = {[name |-> "a1", location |-> "us-west1", scope |-> "REGIONAL"]}
    /\ \E n, m \in 0..MaxChildren :
          /\ n = 0 \/ m <= 1
          /\ registrations = ChildrenUnder("service", n) \cup ChildrenUnder("workload", m)
    /\ faults = 0
    /\ del = IdleDel

NextDel ==
    \/ DeleteAppStart(appLocation, "a1")
    \/ Teardown

SpecDel == InitDel /\ [][NextDel]_vars

\* deleteApp with every goroutine scheduled and every call and wait returning,
\* at most one of them with an error of its own: a step that can be taken is
\* taken in the end.
\* deleteApp of an application that owns up to MaxChildren services, or one workload.
InitDelFair ==
    /\ entry = "assets"
    /\ assets = <<>>
    /\ locations = <<"us-west1">>
    /\ reportOnly = FALSE
    /\ attributesValid = TRUE
    /\ resolver = NoResolver
    /\ run = [r \in Runs |-> IdleRun]
    /\ applications = {[name |-> "a1", location |-> "us-west1", scope |-> "REGIONAL"]}
    /\ \/ \E n \in 0..MaxChildren : registrations = ChildrenUnder("service", n)
       \/ registrations = ChildrenUnder("workload", 1)
    /\ faults = 0
    /\ del = IdleDel

NextDelFair ==
    \/ DeleteAppStart(appLocation, "a1")
    \/ Teardown /\ faults' <= 1

SpecDelFair == InitDelFair /\ [][NextDelFair]_vars /\ WF_vars(NextDelFair)

\* The generate run is called again, with the same inputs, once it has
\* returned without error and without a call that failed.
SecondRun ==
    /\ run[1].pc = "done"
    /\ run[1].err = ""
    /\ faults = 0
    /\ run[2].pc = "idle"
    /\ del.pc = "idle"
    /\ del.loop.pc = "idle"
    /\ run' = [run EXCEPT ![2] = [IdleRun EXCEPT
                                      !.pc = "start",
                                      !.catalogBefore = <<applications, registrations>>]]
    /\ UNCHANGED <<inputs, applications, registrations, faults, del>>

\* A generate run over discovered assets against a catalog it finds, and the
\* same run once more.
InitTwice ==
    /\ entry = "assets"
    /\ assets \in AssetLists(MaxAssets)
    /\ locations \in LocationLists
    /\ reportOnly = FALSE
    /\ attributesValid = TRUE
    /\ resolver = NoResolver
    /\ run = [r \in Runs |-> IF r = 1 THEN [IdleRun EXCEPT !.pc = "start"] ELSE IdleRun]
    /\ \E c \in PreCatalogs : applications = c.apps /\ registrations = c.regs
    /\ faults = 0
    /\ del = IdleDel

\* The two runs with no remote call failing for a reason outside the catalog.
NextTwice ==
    \/ \E r \in Runs : Generate(r) /\ faults' = 0
    \/ SecondRun

SpecTwice == InitTwice /\ [][NextTwice]_vars

\* The command is given again over the same assets without --report-only, once
\* the dry run has returned.
MutatingRun ==
    /\ reportOnly
    /\ run[1].pc = "done"
    /\ run[2].pc = "idle"
    /\ reportOnly' = FALSE
    /\ run' = [run EXCEPT ![2] = [IdleRun EXCEPT !.pc = "start"]]
    /\ UNCHANGED <<entry, assets, locations, attributesValid, resolver,
                   applications, registrations, faults, del>>

\* A dry run of processAssets over discovered assets, then the mutating run.
InitDryRun ==
    /\ entry = "assets"
    /\ assets \in AssetLists(MaxAssets)
    /\ locations \in LocationLists
    /\ reportOnly = TRUE
    /\ attributesValid = TRUE
    /\ resolver = NoResolver
    /\ run = [r \in Runs |-> IF r = 1 THEN [IdleRun EXCEPT !.pc = "start"] ELSE IdleRun]
    /\ applications = {}
    /\ registrations = {}
    /\ faults = 0
    /\ del = IdleDel

\* The two runs with at most one remote call failing for a reason outside the catalog.
NextDryRun ==
    \/ \E r \in Runs : Generate(r) /\ faults' <= 1
    \/ MutatingRun

SpecDryRun == InitDryRun /\ [][NextDryRun]_vars

\* ------------------------------------------------------- GenerateFromAll

\* What the three searches of GenerateFromAll can return, as positions of the
\* pool: resources 1 and 3 carry an app* label or tag, 3 is a Kubernetes
\* resource, 6 is one the catalog has not discovered.
LabelSearchResults == {<<>>, <<1>>, <<1, 3>>}
TagSearchResults == {<<>>, <<1>>, <<3>>, <<6>>}
KubernetesSearchResults == {<<>>, <<3>>}

\* A list that keeps the first occurrence of each of its elements.
RECURSIVE Deduplicated(_)
Deduplicated(list) ==
    IF list = <<>> THEN <<>>
    ELSE LET front == Deduplicated(SubSeq(list, 1, Len(list) - 1))
             last  == list[Len(list)]
         IN  IF \E k \in 1..Len(front) : front[k] = last THEN front ELSE Append(front, last)

\* An entry point that drops the resources it has already.
AppendedOnce(list, found) == Deduplicated(list \o found)

\* assets = append(assets, found...)
Appended(list, found) == list \o found

\* One search of GenerateFromAll: its result is appended, an error ends the run.
Search(r, pc, op, results, next) ==
    /\ run[r].pc = pc
    /\ \/ \E found \in results :
             /\ assets' = Appended(assets, found)
             /\ run' = [run EXCEPT ![r] =
                          [@ EXCEPT !.pc = next,
                                    !.trace = Append(@, [op |-> op, i |-> 0, arg |-> found])]]
             /\ UNCHANGED faults
       \/ /\ run' = [run EXCEPT ![r] =
                       Stop([@ EXCEPT !.trace = Append(@, [op |-> op, i |-> 0, arg |-> <<>>])],
                            "error searching assets")]
          /\ faults' = Counted("Internal")
          /\ UNCHANGED assets
    /\ UNCHANGED <<entry, locations, reportOnly, attributesValid, resolver,
                   applications, registrations, del>>

\* searchAssetsFunc(parent, "app*", "", "", "", "", locations, nil)
SearchLabels(r) == Search(r, "searchLabels", "searchAssets.labels", LabelSearchResults, "searchTags")

\* searchAssetsFunc(parent, "", "", "app*", "", "", locations, nil)
SearchTags(r) == Search(r, "searchTags", "searchAssets.tags", TagSearchResults, "searchKubernetes")

\* searchKubernetes(parent, locations)
SearchKubernetes(r) ==
    Search(r, "searchKubernetes", "searchKubernetes", KubernetesSearchResults, "start")

\* GenerateFromAll against an empty catalog.
InitFromAll ==
    /\ entry = "assets"
    /\ assets = <<>>
    /\ locations \in LocationLists
    /\ reportOnly \in BOOLEAN
    /\ attributesValid = TRUE
    /\ resolver = NoResolver
    /\ run = [r \in Runs |-> IF r = 1 THEN [IdleRun EXCEPT !.pc = "searchLabels"] ELSE IdleRun]
    /\ applications = {}
    /\ registrations = {}
    /\ faults = 0
    /\ del = IdleDel

\* The run with at most one call failing for a reason outside the catalog.
NextFromAll ==
    \/ SearchLabels(1)
    \/ SearchTags(1)
    \/ SearchKubernetes(1)
    \/ Generate(1) /\ faults' <= 1

SpecFromAll == InitFromAll /\ [][NextFromAll]_vars

\* Tag keys and values are paths; the resolver compares and returns last segments.
TagPath(org, segs) == Join(<<org>> \o segs, "/")

\* The resources getAppName is called on: with and without the label, with
\* direct tags (the key first, after another key, absent) and inherited ones.
ResolverAssets ==
    { [Labels |-> l, Tags |-> t, EffectiveTags |-> e] :
        l \in { <<>>,
                [k \in {<<"k">>} |-> <<"x">>],
                [k \in {<<"k">>, <<"o">>} |-> IF k = <<"k">> THEN <<"z">> ELSE <<"x">>],
                [k \in {<<"o">>} |-> <<"x">>] },
        t \in { <<>>,
                <<[TagKey |-> TagPath(<<"1">>, <<<<"t">>>>),
                   TagValue |-> TagPath(<<"1">>, <<<<"t">>, <<"d">>>>)]>>,
                <<[TagKey |-> TagPath(<<"1">>, <<<<"u">>>>),
                   TagValue |-> TagPath(<<"1">>, <<<<"u">>, <<"n">>>>)],
                  [TagKey |-> <<"t">>, TagValue |-> <<"m">>],
                  [TagKey |-> TagPath(<<"1">>, <<<<"t">>>>),
                   TagValue |-> TagPath(<<"1">>, <<<<"t">>, <<"d">>>>)]>>,
                <<[TagKey |-> TagPath(<<"1">>, <<<<"u">>>>),
                   TagValue |-> TagPath(<<"1">>, <<<<"u">>, <<"n">>>>)]>> },
        e \in { <<>>,
                <<[EffectiveTags |-> <<>>],
                  [EffectiveTags |->
                      <<[TagKey |-> TagPath(<<"1">>, <<<<"u">>>>),
                         TagValue |-> TagPath(<<"1">>, <<<<"u">>, <<"n">>>>)],
                        [TagKey |-> TagPath(<<"1">>, <<<<"t">>>>),
                         TagValue |-> TagPath(<<"1">>, <<<<"t">>, <<"e">>>>)]>>]>> } }

\* A call of getAppName with the criteria of --label-key, --tag-key, --contains,
\* --label-value and --tag-value: not given (empty), the wildcard, or a value.
InitResolver ==
    /\ entry = "assets"
    /\ assets = <<>>
    /\ locations = <<"us-west1">>
    /\ reportOnly = FALSE
    /\ attributesValid = TRUE
    /\ \E labelKey \in {<<>>, <<"k">>}, tagKey \in {<<>>, <<"t">>}, contains \in {<<>>, <<"c">>},
          labelValue \in {<<>>, r_wildcard, <<"v">>}, tagValue \in {<<>>, r_wildcard, <<"w">>},
          asset \in ResolverAssets :
          resolver = [pc |-> "called", labelKey |-> labelKey, tagKey |-> tagKey,
                      contains |-> contains, labelValue |-> labelValue,
                      tagValue |-> tagValue, asset |-> asset]
    /\ run = [r \in Runs |-> IdleRun]
    /\ applications = {}
    /\ registrations = {}
    /\ faults = 0
    /\ del = IdleDel

\* getAppNameFunc(asset) returns.
Resolve ==
    /\ resolver.pc = "called"
    /\ resolver' = [pc |-> "returned", labelKey |-> resolver.labelKey,
                    tagKey |-> resolver.tagKey, contains |-> resolver.contains,
                    labelValue |-> resolver.labelValue, tagValue |-> resolver.tagValue,
                    asset |-> resolver.asset,
                    result |-> getAppName(resolver.labelKey, resolver.tagKey, resolver.contains,
                                          resolver.labelValue, resolver.tagValue, resolver.asset)]
    /\ UNCHANGED <<entry, assets, locations, reportOnly, attributesValid, run,
                   applications, registrations, faults, del>>

SpecResolver == InitResolver /\ [][Resolve]_vars

\* The resources getAppNameFromAsset is called on: labels and tags with and
\* without "app" in the key, with values that pass isValidAppName and values
\* that do not, one or two labels that qualify, in a project given by number
\* or by its raw identifier.
AutoDetectAssets ==
    { [Labels |-> l, Tags |-> t, EffectiveTags |-> e, Project |-> p] :
        l \in { <<>>,
                [k \in {<<"a","p","p","i","d">>} |-> <<"x">>],
                [k \in {<<"a","p","p","i","d">>, <<"m","y","a","p","p">>} |->
                    IF k = <<"a","p","p","i","d">> THEN <<"9","x">> ELSE <<"y">>],
                [k \in {<<"a","p","p","i","d">>, <<"m","y","a","p","p">>} |->
                    IF k = <<"a","p","p","i","d">> THEN <<"x">> ELSE <<"y">>],
                [k \in {<<"a","p","p","i","d">>, <<"e","n","v">>} |->
                    IF k = <<"a","p","p","i","d">> THEN <<"9","x">> ELSE <<"z">>] },
        t \in { <<>>,
                <<[TagKey |-> TagPath(<<"1">>, <<<<"a","p","p">>>>),
                   TagValue |-> TagPath(<<"1">>, <<<<"a","p","p">>, <<"7">>>>)],
                  [TagKey |-> TagPath(<<"1">>, <<<<"a","p","p">>>>),
                   TagValue |-> TagPath(<<"1">>, <<<<"a","p","p">>, <<"d">>>>)]>>,
                <<[TagKey |-> TagPath(<<"a","p","p">>, <<<<"u">>>>),
                   TagValue |-> TagPath(<<"1">>, <<<<"u">>, <<"n">>>>)]>> },
        e \in { <<>>,
                <<[EffectiveTags |->
                      <<[TagKey |-> TagPath(<<"1">>, <<<<"a","p","p">>>>),
                         TagValue |-> TagPath(<<"1">>, <<<<"a","p","p">>, <<"e">>>>)]>>]>> },
        p \in { Join(<<r_projects, <<"1","2","3">>>>, "/"), <<"p","-","r","a","w">> } }

\* A call of getAppNameFromAsset.
InitAutoDetect ==
    /\ entry = "assets"
    /\ assets = <<>>
    /\ locations = <<"us-west1">>
    /\ reportOnly = FALSE
    /\ attributesValid = TRUE
    /\ \E asset \in AutoDetectAssets : resolver = [pc |-> "called", asset |-> asset]
    /\ run = [r \in Runs |-> IdleRun]
    /\ applications = {}
    /\ registrations = {}
    /\ faults = 0
    /\ del = IdleDel

\* getAppNameFromAsset returns, whatever the project-metadata lookup answers.
ResolveFromAsset ==
    /\ resolver.pc = "called"
    /\ \E outcome \in GetProjectOutcomes :
          \E name \in getAppNameFromAsset(resolver.asset, outcome) :
              resolver' = [pc |-> "returned", asset |-> resolver.asset,
                           outcome |-> outcome, result |-> name]
    /\ UNCHANGED <<entry, assets, locations, reportOnly, attributesValid, run,
                   applications, registrations, faults, del>>

\* getAppNameFromAsset is called once more on the same resource, with the
\* project-metadata lookup answering as before.
ResolveAgain ==
    /\ resolver.pc = "returned"
    /\ \E name \in getAppNameFromAsset(resolver.asset, resolver.outcome) :
          resolver' = [pc |-> "returnedAgain", asset |-> resolver.asset,
                       outcome |-> resolver.outcome, result |-> resolver.result,
                       second |-> name]
    /\ UNCHANGED <<entry, assets, locations, reportOnly, attributesValid, run,
                   applications, registrations, faults, del>>

NextAutoDetect ==
    \/ ResolveFromAsset
    \/ ResolveAgain

SpecAutoDetect == InitAutoDetect /\ [][NextAutoDetect]_vars

\* The calls of searchAssets: each criterion given or not, one to three locations.
SearchAssetsCalls ==
    { [pc |-> "called", fn |-> "searchAssets", labelKey |-> lk, labelValue |-> lv,
       tagKey |-> tk, tagValue |-> tv, contains |-> c, locations |-> locs] :
        lk \in {<<>>, <<"k">>}, lv \in {<<>>, <<"v">>}, tk \in {<<>>, <<"t">>},
        tv \in {<<>>, <<"w">>}, c \in {<<>>, <<"c">>},
        locs \in { <<r_uswest1>>, <<r_uswest1, <<"u","s","-","e","a","s","t","1">>>>,
                   <<r_uswest1, <<"u","s","-","e","a","s","t","1">>, r_global>> } }

\* The calls of registerServiceWithApplication's id derivation: display names
\* around the two length limits, with underscores, and twin names whose id has
\* one hyphen, several, none, and a last part of 12 and of 13 runes.
RegistrationIdCalls ==
    { [pc |-> "called", fn |-> "RegistrationId",
       discoveredName |-> TwinName(r_uswest1, r_discoveredServices, id),
       displayName |-> [i \in 1..n |-> IF i % 7 = 3 THEN "_" ELSE "a"]] :
        n \in {1, 10, 49, 50, 51, 63, 64},
        id \in { <<"s","v","c","-","1","2","3">>, <<"a","-","b","-","c">>, <<"s","v","c">>,
                 <<"a","p","p","h","u","b","-">> \o [i \in 1..12 |-> "f"],
                 <<"a","p","p","h","u","b","-">> \o [i \in 1..13 |-> "f"] } }

\* ------------------------------------------- the generate command's validation

\* IsValidResourceFormat: projects/ or folders/ followed by something.
IsValidResourceFormat(s) ==
    IF HasPrefix(s, r_projects \o <<"/">>) THEN Len(s) > 9
    ELSE IF HasPrefix(s, <<"f","o","l","d","e","r","s","/">>) THEN Len(s) > 8
    ELSE FALSE

IsFolder(s) == HasPrefix(s, <<"f","o","l","d","e","r","s","/">>)

\* The flags of the generate command that name a grouping mode.
GroupingModes ==
    {"auto-detect", "label-key", "tag-key", "contains", "log-label-key",
     "per-k8s-namespace", "per-k8s-app-label", "project-keys"}

\* The flags of the generate command besides app-name, whose value is kept apart.
GenAppsFlags == GroupingModes \cup {"label-value", "tag-value", "log-label-value"}

\* GetStringParam(cmd.Flag(name)): the value given, "" for a flag left out.
GetStringParam(c, name) ==
    IF name = "app-name" THEN c.appName
    ELSE IF name \in c.flags THEN <<"x">> ELSE <<>>

\* GenAppsCmd.Args: the error it returns, "" for none.
GenAppsCmdArgs(c) ==
    LET labelKey      == GetStringParam(c, "label-key")
        labelValue    == GetStringParam(c, "label-value")
        logLabelKey   == GetStringParam(c, "log-label-key")
        logLabelVal   == GetStringParam(c, "log-label-value")
        tagKey        == GetStringParam(c, "tag-key")
        tagValue      == GetStringParam(c, "tag-value")
        appName       == GetStringParam(c, "app-name")
    IN  IF c.parent = <<>> THEN "parent is a required field"
        ELSE IF ~IsValidResourceFormat(c.parent)
             THEN "parent must be of the format projects/{project} or folders/{folder}"
        ELSE IF c.managementProject = <<>> /\ IsFolder(c.parent)
             THEN "management-project is a required field for folders"
        ELSE IF Len(c.locations) = 0 THEN "at least one location is required"
        ELSE IF labelValue # <<>> /\ labelKey = <<>>
             THEN "label-value must be used with label-key"
        ELSE IF tagValue # <<>> /\ tagKey = <<>>
             THEN "tag-value must be used with tag-key"
        ELSE IF logLabelKey # <<>> /\ logLabelVal = <<>>
             THEN "log-label-value must be used with log-label-key"
        ELSE IF IsFolder(c.parent) /\ logLabelKey # <<>>
             THEN "log-label-key is not allowed for folders"
        ELSE IF ~isValidAppName(appName) THEN "app-name must start with a lowercase letter"
        ELSE ""

\* The flag groups init declares, as the command validates them before it runs:
\* project-keys and app-name together, one grouping mode required, at most one
\* grouping mode, at most one of label-value and tag-value.
ValidateFlagGroups(c) ==
    LET set == c.flags \cup (IF c.appName # <<>> THEN {"app-name"} ELSE {})
    IN  IF Cardinality(set \cap {"project-keys", "app-name"}) = 1
        THEN "flags must be set together"
        ELSE IF set \cap GroupingModes = {} THEN "at least one of the flags is required"
        ELSE IF Cardinality(set \cap GroupingModes) > 1 THEN "flags are mutually exclusive"
        ELSE IF {"label-value", "tag-value"} \subseteq set THEN "flags are mutually exclusive"
        ELSE ""

MaxFlags == 3

\* Command lines of the generate command: the parent missing, malformed, a
\* project or a folder, the management project and the location given or not,
\* up to MaxFlags of the flags, and app-name left out, valid or invalid.
GenAppsCalls ==
    { [pc |-> "called", fn |-> "GenAppsCmd.Args", parent |-> p, managementProject |-> m,
       locations |-> l, flags |-> f, appName |-> a] :
        p \in {<<>>, <<"p">>, r_projects \o <<"/", "p">>, <<"f","o","l","d","e","r","s","/","f">>},
        m \in {<<>>, r_mp},
        l \in {<<>>, <<r_uswest1>>},
        f \in {s \in SUBSET GenAppsFlags : Cardinality(s) <= MaxFlags},
        a \in {<<>>, <<"m","y","-","a","p","p">>, <<"M","y">>} }

\* ------------------------------------------------ getAppNameForKubernetes

\* createShortSHA: the first 7 hex digits of the SHA-256 digest of the input,
\* kept symbolic as the input under a marker: no two inputs collide.
createShortSHA(input) == <<"#">> \o input

\* getAppNameForKubernetes: the last segment of the path, and the segments at
\* the indexes 5 and 2 of strings.Split(s, "/").
getAppNameForKubernetes(s) ==
    LET namespace == AfterLast(s, "/")
        project   == Split(s, "/")[3]
        cluster   == Split(s, "/")[6]
    IN  namespace \o <<"-">> \o createShortSHA(cluster) \o <<"-">> \o createShortSHA(project)

\* The parent of a namespaced Kubernetes resource, as the asset inventory names
\* it: //container.googleapis.com/projects/P/locations/L/clusters/C/k8s/namespaces/N,
\* with zones in place of locations for a zonal cluster.
KubernetesParent(project, scope, location, cluster, namespace) ==
    <<"/", "/">> \o
    Join(<<<<"c","o","n","t","a","i","n","e","r",".","g","o","o","g","l","e","a","p","i","s",".","c","o","m">>, r_projects, project, scope, location,
           <<"c","l","u","s","t","e","r","s">>, cluster, <<"k","8","s">>, <<"n","a","m","e","s","p","a","c","e","s">>, namespace>>, "/")

\* The calls of getAppNameForKubernetes: two projects, regional and zonal
\* clusters, two cluster names, two namespaces.
KubernetesCalls ==
    { [pc |-> "called", fn |-> "getAppNameForKubernetes",
       project |-> p, cluster |-> c, namespace |-> n,
       ParentFullResourceName |-> KubernetesParent(p, s[1], s[2], c, n)] :
        p \in {<<"p">>, <<"q">>},
        s \in { <<r_locations, <<"u","s","-","w","e","s","t","1">>>>, <<<<"z","o","n","e","s">>, <<"u","s","-","w","e","s","t","1","-","a">>>> },
        c \in {<<"c","1">>, <<"c","2">>},
        n \in {<<"n","s","1">>, <<"n","s","2">>} }

\* ---------------------------------------------------------- searchProject

\* strings.Join(parts, sep) for a separator of several runes.
RECURSIVE JoinBy(_, _)
JoinBy(parts, sep) ==
    IF parts = <<>> THEN <<>>
    ELSE IF Len(parts) = 1 THEN parts[1]
    ELSE parts[1] \o sep \o JoinBy(Tail(parts), sep)

\* if len(projectIds) > 1
ProjectClauseGiven(projectIds) == Len(projectIds) > 1

\* The query of searchProject: the location clause, the exclusion of the
\* system namespaces and, for several project ids, their disjunction, joined
\* by blanks.
searchProjectQuery(projectIds, locs) ==
    LET loc == IF Len(locs) > 1
               THEN <<"(">> \o JoinBy([k \in 1..Len(locs) |-> <<"l","o","c","a","t","i","o","n",":">> \o locs[k]],
                                      <<" ","O","R"," ">>) \o <<")">>
               ELSE <<"l","o","c","a","t","i","o","n",":">> \o locs[1]
        gkeExlNs == [k \in 1..Len(GKE_EXCLUSION_NAMESPACES) |->
                        <<"p","a","r","e","n","t","F","u","l","l","R","e","s","o","u","r","c","e","N","a","m","e"," ",":"," ","\"">> \o GKE_EXCLUSION_NAMESPACES[k] \o <<"\"">>]
        excl == <<"N","O","T"," ","(">> \o JoinBy(gkeExlNs, <<" ","O","R"," ">>) \o <<")">>
        p == [k \in 1..Len(projectIds) |-> r_projects \o <<"/">> \o projectIds[k]]
    IN  JoinBy(<<loc, excl>> \o
               (IF ProjectClauseGiven(projectIds)
                THEN <<<<"A","N","D"," ","(">> \o JoinBy(p, <<" ","O","R"," ">>) \o <<")">>>>
                ELSE <<>>),
               <<" ">>)

\* The calls of searchProject: one to three project ids, one or two locations.
SearchProjectCalls ==
    { [pc |-> "called", fn |-> "searchProject", projectIds |-> ids, locations |-> locs] :
        ids \in { <<<<"p","1">>>>, <<<<"p","1">>, <<"p","2">>>>,
                  <<<<"p","1">>, <<"p","2">>, <<"p","3">>>> },
        locs \in { <<<<"u","s","-","w","e","s","t","1">>>>, <<<<"u","s","-","w","e","s","t","1">>, <<"u","s","-","e","a","s","t","1">>>> } }

\* The calls of the functions checked on their own.
FunctionCalls ==
    SearchAssetsCalls \cup RegistrationIdCalls \cup GenAppsCalls \cup KubernetesCalls
        \cup SearchProjectCalls

\* A call of one of the functions.
InitFunctions ==
    /\ entry = "assets"
    /\ assets = <<>>
    /\ locations = <<"us-west1">>
    /\ reportOnly = FALSE
    /\ attributesValid = TRUE
    /\ resolver \in FunctionCalls
    /\ run = [r \in Runs |-> IdleRun]
    /\ applications = {}
    /\ registrations = {}
    /\ faults = 0
    /\ del = IdleDel

\* The call returns result.
Return(result) ==
    /\ resolver.pc = "called"
    /\ resolver' = [k \in DOMAIN resolver \cup {"result"} |->
                      IF k = "pc" THEN "returned"
                      ELSE IF k = "result" THEN result
                      ELSE resolver[k]]
    /\ UNCHANGED <<entry, assets, locations, reportOnly, attributesValid, run,
                   applications, registrations, faults, del>>

\* searchAssets builds its query.
BuildQuery ==
    /\ resolver.fn = "searchAssets"
    /\ Return(fullQuery(queryParts(resolver.labelKey, resolver.labelValue, resolver.tagKey,
                                   resolver.tagValue, resolver.contains, resolver.locations)))

\* id := getServiceWorkloadId(parts[5], truncateName(displayName))
DeriveId ==
    /\ resolver.fn = "RegistrationId"
    /\ Return(RegistrationId(resolver.discoveredName, resolver.displayName))

\* The generate command validates its command line.
ValidateCommand ==
    /\ resolver.fn = "GenAppsCmd.Args"
    /\ Return([args |-> GenAppsCmdArgs(resolver), groups |-> ValidateFlagGroups(resolver)])

\* appNameFunc of GenerateAppsPerNamespace.
NameForKubernetes ==
    /\ resolver.fn = "getAppNameForKubernetes"
    /\ Return(getAppNameForKubernetes(resolver.ParentFullResourceName))

\* searchProject builds its query.
BuildProjectQuery ==
    /\ resolver.fn = "searchProject"
    /\ Return(searchProjectQuery(resolver.projectIds, resolver.locations))

NextFunctions ==
    \/ BuildQuery
    \/ DeriveId
    \/ ValidateCommand
    \/ NameForKubernetes
    \/ BuildProjectQuery

SpecFunctions == InitFunctions /\ [][NextFunctions]_vars

\* n registrations of a kind under the application a1 of a location.
ChildrenAt(location, kind, n) ==
    {[app |-> "a1", location |-> location, kind |-> kind,
      id |-> <<"c", Digits[k]>>, discovered |-> <<"t", Digits[k]>>] : k \in 1..n}

DeleteLocationLists ==
    {<<"us-west1">>, <<"us-west1", "us-east1">>, <<"us-west1", "us-east1", "global">>}

\* DeleteApp of a1, or DeleteAllApps, over locations that each hold a1 with one
\* or two services and at most one workload; the first may hold a2 as well.
InitDelLocs ==
    /\ entry = "assets"
    /\ assets = <<>>
    /\ locations \in DeleteLocationLists
    /\ reportOnly = FALSE
    /\ attributesValid = TRUE
    /\ resolver = NoResolver
    /\ run = [r \in Runs |-> IdleRun]
    /\ \E extra \in BOOLEAN :
          applications =
              {[name |-> "a1", location |-> locations[j], scope |-> appScope(locations[j])] :
                  j \in 1..Len(locations)}
              \cup (IF extra THEN {[name |-> "a2", location |-> locations[1],
                                   scope |-> appScope(locations[1])]}
                    ELSE {})
    /\ \E n \in 1..2, m \in 0..1 :
          registrations =
              UNION {ChildrenAt(locations[j], "service", n) \cup
                     ChildrenAt(locations[j], "workload", m) : j \in 1..Len(locations)}
    /\ faults = 0
    /\ del = IdleDel

NextDelLocs ==
    \/ DeleteLoop
    \/ Teardown

SpecDelLocs == InitDelLocs /\ [][NextDelLocs]_vars

\* ------------------------------------------------------------- the claims

MutatingCalls(r) ==
    {k \in 1..Len(run[r].trace) : run[r].trace[k].op \in MutatingOps}

\* C2: with reportOnly set, a generate run (processAssets or the log entry
\* point) never issues CreateApplication, CreateService or CreateWorkload,
\* whatever it discovers and whatever the lookups answer.
C2_ReportOnlyNeverMutates ==
    reportOnly => \A r \in Runs : MutatingCalls(r) = {}

\* A dry run that found a twin, reported it and went on to the end.
C2_Witness ==
    /\ reportOnly
    /\ run[1].pc = "done"
    /\ run[1].err = ""
    /\ \E a \in Apps : run[1].generatedApplications[a] # <<>>

CreateCalls(r, a) ==
    {k \in 1..Len(run[r].trace) :
        run[r].trace[k].op = "CreateApplication" /\ run[r].trace[k].arg = a}

\* C3: over the getOrCreateAppHubApplication calls of a run for one
\* application name, at most one CreateApplication is issued, and none after a
\* call for that name has returned successfully.
C3_AtMostOneCreate ==
    \A r \in Runs : \A a \in Apps :
        /\ Cardinality(CreateCalls(r, a)) <= 1
        /\ \A j, k \in 1..Len(run[r].trace) :
              (/\ j < k
               /\ run[r].trace[j].op = "getOrCreate.ok"
               /\ run[r].trace[j].arg = a)
              => k \notin CreateCalls(r, a)

\* A first call created the application and a later call for the same name
\* returned it from the Get.
C3_Witness ==
    \E a \in Apps : \E j, k \in 1..Len(run[1].trace) :
        /\ j \in CreateCalls(1, a)
        /\ j < k
        /\ run[1].trace[k].op = "GetApplication"
        /\ run[1].trace[k].arg = a
        /\ k < Len(run[1].trace)
        /\ run[1].trace[k + 1].op = "getOrCreate.ok"

\* C5: registerServiceWithApplication returns nil exactly when the create and
\* its wait both succeeded, or the create answered ALREADY_EXISTS, or the wait
\* answered FAILED_PRECONDITION; in the service branch and in the workload branch.
C5_RegisterResult ==
    \A r \in Runs :
        LET g == run[r].lastReg
        IN  g.result \in {"ok", "err"} =>
              (g.result = "ok" <=>
                 \/ g.submit = "OK" /\ g.wait = "OK"
                 \/ g.submit = "AlreadyExists"
                 \/ g.submit = "OK" /\ g.wait = "FailedPrecondition")

\* A workload registration whose wait answered FAILED_PRECONDITION and returned nil.
C5_Witness ==
    /\ run[1].lastReg.kind = "discoveredWorkload"
    /\ run[1].lastReg.wait = "FailedPrecondition"
    /\ run[1].lastReg.result = "ok"

\* C6: when a mutating run has returned without error, every resource whose
\* twin was found has a registration of its kind, under the application its
\* group key names, that links to that twin.
C6_EveryFoundTwinRegistered ==
    \A r \in Runs :
        (run[r].pc = "done" /\ run[r].err = "" /\ ~reportOnly) =>
            \A f \in run[r].found :
                LET asset == AssetPool[assets[f.i]]
                    type  == IF entry = "logs" THEN "discoveredService"
                             ELSE identifyServiceOrWorkload(asset.AssetType)
                    name  == IF entry = "logs" THEN logLabelValue ELSE asset.app
                IN  \E c \in ChildrenOf(appLocation, name, Kind(type)) :
                        c.discovered = f.name

\* ------------------------------------------------- the claims on deleteApp

\* C1: DeleteApplication is issued only when, for services and for workloads,
\* every child the listing returned has had its delete operation waited for
\* with success, no worker is left and the application owns no child; and no
\* workload is listed or deleted before every service deletion has completed.
C1_ApplicationDeletedLast ==
    /\ (del.pc \in {"deleteApp", "deleteAppWait"} \/ del.appDeleteIssued) =>
          \A k \in GroupKinds :
              /\ del.completedN[k] = del.listedN[k]
              /\ del.gerr[k] = "-"
              /\ WorkersOf(k) = {}
              /\ ChildrenOf(del.location, del.app, k) = {}
    /\ (del.listedN["workload"] > 0 \/ WorkersOf("workload") # {}) =>
          /\ del.completedN["service"] = del.listedN["service"]
          /\ WorkersOf("service") = {}
          /\ ChildrenOf(del.location, del.app, "service") = {}

\* The application's deletion has been issued after services and workloads of
\* it were deleted.
C1_Witness ==
    /\ del.appDeleteIssued
    /\ del.completedN["service"] > 1
    /\ del.completedN["workload"] > 0

\* C8: never more than maxConcurrentDeletions workers of a group are running,
\* and so never more than that many submitted deletions wait for completion.
C8_AtMostFourInFlight ==
    \A k \in GroupKinds :
        /\ Cardinality(WorkersOf(k)) <= maxConcurrentDeletions
        /\ Cardinality({w \in WorkersOf(k) : w.st = "wait"}) <= 4

\* Four submitted deletions are waited for while a listed child has no worker yet.
C8_Witness ==
    /\ del.pc = "list"
    /\ Cardinality({w \in WorkersOf(del.kind) : w.st = "wait"}) = maxConcurrentDeletions
    /\ del.iter.pos < del.iter.fetched

\* C9: when a deletion of a child has failed while deleteApp ran (and no other
\* call was answered with an injected error), deleteApp returns the error its
\* group recorded for that kind, and has issued no deletion of a later stage:
\* no workload deletion after a failed service deletion, no application deletion.
C9_FirstDeletionErrorReturned ==
    (del.pc = "done" /\ del.failureKind # "-" /\ faults <= 1) =>
        /\ del.err = "group"
        /\ del.kind = del.failureKind
        /\ del.gerr[del.kind] = "failed"
        /\ ~del.appDeleteIssued
        /\ del.failureKind = "service" => del.listedN["workload"] = 0

\* C10, as stated: no child is deleted whose Delete was submitted after a
\* deletion of the group had failed.
C10_NoDeletionAfterFailure == ~del.lateDeleted

\* C10, amended: a group's context is cancelled exactly when the group has
\* recorded a worker's error, and no Delete is accepted once it is cancelled.
C10_NoDeletionAfterCancel ==
    /\ \A k \in GroupKinds : del.cancelled[k] <=> del.gerr[k] # "-"
    /\ ~del.issuedAfterCancel

\* A worker started after the cancellation has aborted and its child is still there.
C10_Witness ==
    \E w \in del.workers :
        /\ del.cancelled[w.kind]
        /\ w.st = "aborted"
        /\ \E c \in ChildrenOf(del.location, del.app, w.kind) : c.id = w.id
        /\ del.gerr[w.kind] = "failed"

\* ---------------------------------------- the claims on runs and teardown

\* C4: two runs with the same inputs, no call answered with an injected
\* error: both return without error.
C4_ConcurrentRunsConverge ==
    (faults = 0 /\ Len(assets) > 0 /\ \A r \in Runs : run[r].pc = "done") =>
        \A r \in Runs : run[r].err = ""

\* C7: deleteApp of an application that a run got or created, once the run is
\* over and with no call answered with an injected error, returns nil and
\* leaves no service and no workload under the application and no application.
C7_RoundTrip ==
    (/\ del.pc = "done"
     /\ faults = 0
     /\ \E k \in 1..Len(run[1].trace) :
           run[1].trace[k].op = "getOrCreate.ok" /\ run[1].trace[k].arg = del.app)
    => /\ del.err = ""
       /\ \A k \in GroupKinds : ChildrenOf(del.location, del.app, k) = {}
       /\ ~AppExists(del.location, del.app)

\* The run registered a service and a workload under the application, and
\* deleteApp removed them and the application.
C7_Witness ==
    /\ del.pc = "done"
    /\ del.err = ""
    /\ faults = 0
    /\ del.completedN["service"] > 0
    /\ del.completedN["workload"] > 0
    /\ ~AppExists(del.location, del.app)
    /\ \E k \in 1..Len(run[1].trace) :
           run[1].trace[k].op = "CreateApplication" /\ run[1].trace[k].arg = del.app

\* ------------------------------------------------- the claims on the lookup

\* C11: for one resource a run issues at most two lookup calls, the original
\* one and one retry against "global" after a NOT_FOUND for a gateway URI.
C11_AtMostTwoLookups ==
    \A r \in Runs : \A i \in 1..Len(assets) : Cardinality(LookupCalls(r, i)) <= 2

\* The resources of a run for which a lookup returned a twin.
FoundIdx(r) == {f.i : f \in run[r].found}

\* The entries of the run's report, over all applications.
ReportLen(r) ==
    LET RECURSIVE Sum(_)
        Sum(S) == IF S = {} THEN 0
                  ELSE LET a == CHOOSE x \in S : TRUE
                       IN  Len(run[r].generatedApplications[a]) + Sum(S \ {a})
    IN  Sum(Apps)

\* C12: a resource whose lookup returned no twin is only skipped: every get,
\* create and register call of a run is for a resource whose twin was found,
\* the report holds three entries per found resource and nothing else, a run
\* never ends with an error at a resource whose lookup failed, a run that ends
\* without error has gone through all resources, and a run is never about to
\* look a resource up where a lookup for it has failed already (it goes on to
\* the next resource).
C12_LookupFailureSkipsResource ==
    \A r \in Runs :
        /\ \A k \in 1..Len(run[r].trace) :
              run[r].trace[k].op # "Lookup" => run[r].trace[k].i \in FoundIdx(r)
        /\ ReportLen(r) <= 3 * Cardinality(run[r].found)
        /\ entry = "assets" => ReportLen(r) = 3 * Cardinality(run[r].found)
        /\ run[r].err # "" => (Len(assets) = 0 \/ run[r].idx \in FoundIdx(r))
        /\ (run[r].pc = "done" /\ run[r].err = "") => run[r].idx = Len(assets) + 1
        /\ run[r].pc = "lookup" =>
              \A k \in LookupCalls(r, run[r].idx) : run[r].trace[k].arg # run[r].loc

\* The App Hub type of the i-th resource of the run.
TypeAt(i) ==
    IF entry = "logs" THEN "discoveredService"
    ELSE identifyServiceOrWorkload(AssetPool[assets[i]].AssetType)

\* The latest lookup error of the run is the <<"a","p","p","h","u","b",".","w","o","r","k","l","o","a","d","s",".","l","i","s","t">>ISSION_DENIED message, and
\* the run is not inside the lookup of a later resource.
PermissionError(r) ==
    /\ Len(run[r].lookupErr) >= Len(e_permissionPrefix)
    /\ SubSeq(run[r].lookupErr, 1, Len(e_permissionPrefix)) = e_permissionPrefix
    /\ run[r].pc # "lookup" \/ LookupCalls(r, run[r].idx) = {}

\* The resource of the run's latest catalog call.
LastCall(r) == run[r].trace[Len(run[r].trace)]

\* C13, as stated: after <<"a","p","p","h","u","b",".","w","o","r","k","l","o","a","d","s",".","l","i","s","t">>ISSION_DENIED the error names
\* apphub.workloads.list for a discoveredWorkload and the discovered-services
\* list permission for a discoveredService, the lookup was the run's last call
\* (no retry, no get, create or register) and the resource was not found.
C13_PermissionNamedAsStated ==
    \A r \in Runs :
        PermissionError(r) =>
            /\ LastCall(r).op = "Lookup"
            /\ LastCall(r).i \notin FoundIdx(r)
            /\ Contains(run[r].lookupErr,
                        IF TypeAt(LastCall(r).i) = "discoveredWorkload"
                        THEN <<"a","p","p","h","u","b",".","w","o","r","k","l","o","a","d","s",".","l","i","s","t">>
                        ELSE p_discoveredServicesList)

\* C13, amended: the same, the permission named for a discoveredWorkload
\* being apphub.discoveredWorkloads.list.
C13_PermissionNamed ==
    \A r \in Runs :
        PermissionError(r) =>
            /\ LastCall(r).op = "Lookup"
            /\ LastCall(r).i \notin FoundIdx(r)
            /\ Contains(run[r].lookupErr,
                        IF TypeAt(LastCall(r).i) = "discoveredWorkload"
                        THEN p_discoveredWorkloadsList ELSE p_discoveredServicesList)
            /\ ~Contains(run[r].lookupErr,
                         IF TypeAt(LastCall(r).i) = "discoveredWorkload"
                         THEN p_discoveredServicesList ELSE p_discoveredWorkloadsList)

\* The lookup of a workload was answered <<"a","p","p","h","u","b",".","w","o","r","k","l","o","a","d","s",".","l","i","s","t">>ISSION_DENIED and the run ended
\* without an error.
C13_Witness ==
    /\ PermissionError(1)
    /\ TypeAt(LastCall(1).i) = "discoveredWorkload"
    /\ run[1].pc = "done"
    /\ run[1].err = ""

\* ------------------------------------------- the claims on the run's errors

\* getOrCreateAppHubApplication was called for the i-th resource of the run
\* and has returned an error.
GetOrCreateFailed(r, i) ==
    /\ \E k \in 1..Len(run[r].trace) :
          run[r].trace[k].op = "GetApplication" /\ run[r].trace[k].i = i
    /\ ~\E k \in 1..Len(run[r].trace) :
          run[r].trace[k].op = "getOrCreate.ok" /\ run[r].trace[k].i = i
    /\ ~(run[r].idx = i /\ run[r].pc \in {"create", "createWait"})

\* C14: when getOrCreateAppHubApplication or registerServiceWithApplication
\* has returned an error for a resource, the run has ended with an error at
\* that resource; and a run that has ended with an error at a resource has
\* issued no catalog call for a later one.
C14_HardFailureStopsRun ==
    \A r \in Runs :
        /\ \A i \in 1..Len(assets) :
              GetOrCreateFailed(r, i) =>
                  /\ run[r].pc = "done"
                  /\ run[r].err = "error creating application"
                  /\ run[r].idx = i
        /\ run[r].lastReg.result = "err" =>
              /\ run[r].pc = "done"
              /\ run[r].err = "error registering service"
        /\ (run[r].err # "" /\ Len(assets) > 0) =>
              /\ run[r].pc = "done"
              /\ run[r].idx <= Len(assets)
              /\ LastCall(r).i = run[r].idx
              /\ \A k \in 1..Len(run[r].trace) : run[r].trace[k].i <= run[r].idx

\* CreateApplication failed for the first of two resources, and the run ended
\* there although the catalog holds the twin of the second.
C14_Witness ==
    /\ Len(assets) = 2
    /\ AssetPool[assets[2]].twin # <<>>
    /\ GetOrCreateFailed(1, 1)
    /\ LastCall(1).op = "CreateApplication"
    /\ run[1].err # ""

\* ------------------------------------- the claims on scope and locations

\* The applications a run has created.
CreatedApplications ==
    {a \in applications :
        /\ a.location = appLocation
        /\ \E r \in Runs : \E k \in 1..Len(run[r].trace) :
              run[r].trace[k].op = "CreateApplication" /\ run[r].trace[k].arg = a.name}

\* C15, as stated: an application is created GLOBAL when more than one
\* location was supplied and REGIONAL when one was, whatever that location is.
C15_ScopeByLocationCount ==
    \A a \in CreatedApplications :
        a.scope = IF Len(locations) > 1 THEN "GLOBAL" ELSE "REGIONAL"

\* C15, amended: an application is created GLOBAL when more than one location
\* was supplied or the one supplied is "global", and REGIONAL otherwise,
\* whatever the regions of the resources.
C15_ScopeByApplicationLocation ==
    \A a \in CreatedApplications :
        a.scope = IF Len(locations) > 1 \/ locations[1] = "global" THEN "GLOBAL"
                  ELSE "REGIONAL"

\* Two locations were supplied and a GLOBAL application was created for a
\* resource of the region us-west1 and holds its registration.
C15_Witness ==
    \E a \in CreatedApplications :
        /\ Len(locations) = 2
        /\ a.scope = "GLOBAL"
        /\ \E c \in ChildrenOf(a.location, a.name, "service") :
              c.discovered = AssetPool[1].twin

\* processAssets skips the i-th resource for its location.
SkippedForRegion(i) ==
    LET location == AssetPool[assets[i]].Location
    IN  /\ entry = "assets"
        /\ \/ location \notin regions \cup multiRegions
           \/ location \in multiRegions /\ appLocation # "global"

\* C16: for a resource whose location is no supported region or multi-region,
\* or is a multi-region while the application is regional, processAssets
\* issues no catalog call and records nothing; the run does not end at it
\* and, ending without error, has gone through all resources.
C16_UnsupportedRegionSkipped ==
    \A r \in Runs : \A i \in 1..Len(assets) :
        SkippedForRegion(i) =>
            /\ \A k \in 1..Len(run[r].trace) : run[r].trace[k].i # i
            /\ i \notin FoundIdx(r)
            /\ ReportLen(r) = 3 * Cardinality(run[r].found)
            /\ run[r].pc = "done" => run[r].idx # i
            /\ (run[r].pc = "done" /\ run[r].err = "") => run[r].idx = Len(assets) + 1

\* A zonal resource came first and was skipped; the run registered the second
\* resource and ended without error.
C16_Witness ==
    /\ Len(assets) = 2
    /\ SkippedForRegion(1)
    /\ AssetPool[assets[1]].Location \notin regions \cup multiRegions
    /\ AssetPool[assets[1]].twin # <<>>
    /\ run[1].pc = "done"
    /\ run[1].err = ""
    /\ \E k \in 1..Len(run[1].trace) :
          run[1].trace[k].i = 2 /\ run[1].trace[k].op \in {"CreateService", "CreateWorkload"}

\* C17: when discovery has returned no resource, a run issues no catalog call
\* and records nothing, and once it has started it has ended with the error
\* "no assets found".
C17_EmptyDiscoveryIsTerminal ==
    Len(assets) = 0 =>
        \A r \in Runs :
            /\ run[r].trace = <<>>
            /\ ReportLen(r) = 0
            /\ run[r].pc \in {"idle", "start", "done"}
            /\ run[r].pc = "done" =>
                  run[r].err = "no assets found that matched the filter"

\* The log entry point found nothing and returned the error.
C17_Witness ==
    /\ Len(assets) = 0
    /\ entry = "logs"
    /\ run[1].pc = "done"
    /\ run[1].err # ""

\* The locations of the deleteApp invocations made so far.
CallLocations == [j \in 1..Len(del.loop.calls) |-> locations[del.loop.calls[j].idx]]

SameAnswers == run[2].found \subseteq run[1].found

Supplied(v) == v # <<>>

\* An explicit single value was supplied: not empty and not the wildcard.
Explicit(v) == v # <<>> /\ v # r_wildcard

\* The direct tags, then the inherited ones, in the order the resource lists them.
AllTags(asset) ==
    LET RECURSIVE Flat(_)
        Flat(d) == IF d = <<>> THEN <<>> ELSE Head(d).EffectiveTags \o Flat(Tail(d))
    IN  asset.Tags \o Flat(asset.EffectiveTags)

\* The tag resolution: the last segment of the value of the first tag, direct
\* ones first, whose key ends in the segment tagKey; "unknown" without one.
TagResolution(asset, tagKey) ==
    LET all  == AllTags(asset)
        hits == {i \in 1..Len(all) : AfterLast(all[i].TagKey, "/") = tagKey}
    IN  IF hits = {} THEN r_unknown
        ELSE AfterLast(all[CHOOSE i \in hits : \A j \in hits : i <= j].TagValue, "/")

\* What the precedence gives when has(v) tells a value filter from none.
Precedence(c, has(_)) ==
    IF has(c.labelValue) THEN c.labelValue
    ELSE IF has(c.tagValue) THEN c.tagValue
    ELSE IF c.labelKey # <<>> THEN LabelOf(c.asset, c.labelKey)
    ELSE IF c.tagKey # <<>> THEN TagResolution(c.asset, c.tagKey)
    ELSE c.contains

\* C20 as stated: any supplied label or tag value is the name of every
\* resource; else the label key's value, else the tag resolution, else the
\* substring literal.
C20_PrecedenceAsStated ==
    resolver.pc = "returned" => resolver.result = Precedence(resolver, Supplied)

\* C20: getAppName resolves by first match: a supplied label value other than
\* the wildcard "*", else a supplied tag value other than "*", is the name of
\* every resource; else a label key gives the resource's value for that label
\* (empty if it has none); else a tag key gives the tag resolution; else the
\* substring literal. In label-key mode on key k, labels[k] = x resolves to x.
C20_Precedence ==
    resolver.pc = "returned" =>
        /\ resolver.result = Precedence(resolver, Explicit)
        /\ ( /\ ~Explicit(resolver.labelValue)
             /\ ~Explicit(resolver.tagValue)
             /\ resolver.labelKey \in DOMAIN resolver.asset.Labels )
           => resolver.result = resolver.asset.Labels[resolver.labelKey]

\* A wildcard label value with the label key: the resource's own value for the
\* key is the name, not "*".
C20_Witness ==
    /\ resolver.pc = "returned"
    /\ resolver.labelValue = r_wildcard
    /\ resolver.labelKey = <<"k">>
    /\ resolver.asset.Labels = [k \in {<<"k">>} |-> <<"x">>]
    /\ resolver.result = <<"x">>

\* The call is in tag-key mode: no explicit value, no label key, a tag key.
TagKeyMode ==
    /\ ~Explicit(resolver.labelValue)
    /\ ~Explicit(resolver.tagValue)
    /\ resolver.labelKey = <<>>
    /\ resolver.tagKey # <<>>

\* The positions of the tags of a list whose key ends in the segment key.
Matching(tags, key) == {i \in 1..Len(tags) : AfterLast(tags[i].TagKey, "/") = key}

\* C21: in tag-key mode getAppName returns the last path segment of the value
\* of the first direct tag whose key's last path segment is the requested
\* key; without such a direct tag, that of the first such inherited tag; and
\* "unknown" when no tag of either kind matches.
C21_TagResolution ==
    (resolver.pc = "returned" /\ TagKeyMode) =>
        LET direct    == resolver.asset.Tags
            inherited == AllTags([resolver.asset EXCEPT !.Tags = <<>>])
            d == Matching(direct, resolver.tagKey)
            e == Matching(inherited, resolver.tagKey)
            First(hits) == CHOOSE i \in hits : \A j \in hits : i <= j
        IN  /\ d # {} => resolver.result = AfterLast(direct[First(d)].TagValue, "/")
            /\ (d = {} /\ e # {}) =>
                  resolver.result = AfterLast(inherited[First(e)].TagValue, "/")
            /\ (d = {} /\ e = {}) => resolver.result = r_unknown

\* A resource whose direct tag 1/t has value 1/t/d and whose inherited tag 1/t
\* has value 1/t/e, asked for key t: the name is d.
C21_Witness ==
    /\ resolver.pc = "returned"
    /\ TagKeyMode
    /\ Len(resolver.asset.Tags) = 1
    /\ resolver.asset.EffectiveTags # <<>>
    /\ resolver.result = <<"d">>

\* No label and no tag of the resource yields a valid name.
NoValidName(asset) ==
    LET all == AllTags(asset)
    IN  /\ \A k \in DOMAIN asset.Labels :
              ~(Contains(k, <<"a","p","p">>) /\ isValidAppName(asset.Labels[k]))
        /\ \A i \in 1..Len(all) :
              ~(/\ Contains(AfterLast(all[i].TagKey, "/"), <<"a","p","p">>)
                /\ isValidAppName(AfterLast(all[i].TagValue, "/")))

\* C22: in auto-detect mode, when no label and no tag yields a valid name, the
\* resolver returns the project id the project-metadata lookup answered for a
\* project reference projects/{number}; when that lookup failed, or the
\* reference is not of that form, it returns the resource's raw project
\* identifier.
C22_ProjectFallback ==
    (resolver.pc = "returned" /\ NoValidName(resolver.asset)) =>
        resolver.result =
            IF /\ HasPrefix(resolver.asset.Project, r_projects \o <<"/">>)
               /\ resolver.outcome = "OK"
            THEN r_projectId
            ELSE resolver.asset.Project

\* How many times sub occurs in s.
Count(s, sub) ==
    Cardinality({i \in 0..(Len(s) - Len(sub)) : SubSeq(s, i + 1, i + Len(sub)) = sub})

\* C23: with exactly one of label key, tag key and substring given, the query
\* of searchAssets holds exactly one grouping predicate, of that mode's kind:
\* the equality predicate when the mode's value is given and the key-only
\* predicate when it is empty; and it starts with one location clause that
\* names every location once, as one disjunct each.
C23_OnePredicateOneLocationClause ==
    LET c == resolver
        q == c.result
        mode == {m \in {"label", "tag", "contains"} :
                    \/ m = "label" /\ c.labelKey # <<>>
                    \/ m = "tag" /\ c.tagKey # <<>>
                    \/ m = "contains" /\ c.contains # <<>>}
        n == Len(c.locations)
    IN  (c.pc = "returned" /\ c.fn = "searchAssets" /\ Cardinality(mode) = 1) =>
            /\ Count(q, <<"l","a","b","e","l","s">>) = (IF mode = {"label"} THEN 1 ELSE 0)
            /\ Count(q, <<"t","a","g","K","e","y","s",":">>) = (IF mode = {"tag"} THEN 1 ELSE 0)
            /\ Count(q, <<"e","f","f","e","c","t","i","v","e","T","a","g","K","e","y","s",":">>) = (IF mode = {"tag"} THEN 1 ELSE 0)
            /\ Count(q, <<" ","A","N","D"," ","n","a","m","e",":">>) = (IF mode = {"contains"} THEN 1 ELSE 0)
            /\ mode = {"label"} =>
                  IF c.labelValue = <<>>
                  THEN Contains(q, <<" ","A","N","D"," ","l","a","b","e","l","s",":">> \o c.labelKey)
                  ELSE Contains(q, <<" ","A","N","D"," ","l","a","b","e","l","s",".">> \o c.labelKey \o <<":">> \o c.labelValue)
            /\ mode = {"tag"} =>
                  IF c.tagValue = <<>>
                  THEN /\ Contains(q, <<" ","A","N","D"," ","(","t","a","g","K","e","y","s",":">> \o c.tagKey \o <<" ","O","R"," ","e","f","f","e","c","t","i","v","e","T","a","g","K","e","y","s",":">> \o c.tagKey \o <<")">>)
                       /\ Count(q, <<"a","g","V","a","l","u","e","s",":">>) = 0
                  ELSE /\ Contains(q, <<"(","t","a","g","K","e","y","s",":">> \o c.tagKey \o <<" ","A","N","D"," ","t","a","g","V","a","l","u","e","s",":">> \o c.tagValue \o <<")">>)
                       /\ Contains(q, <<"(","e","f","f","e","c","t","i","v","e","T","a","g","K","e","y","s",":">> \o c.tagKey \o
                                      <<" ","A","N","D"," ","e","f","f","e","c","t","i","v","e","T","a","g","V","a","l","u","e","s",":">> \o c.tagValue \o <<")">>)
            /\ mode = {"contains"} => Contains(q, <<" ","A","N","D"," ","n","a","m","e",":">> \o c.contains)
            /\ HasPrefix(q, <<"l","o","c","a","t","i","o","n",":">>)
            /\ Count(q, <<"l","o","c","a","t","i","o","n",":">>) = 1
            /\ \A i \in 1..n : Count(q, c.locations[i]) = 1
            /\ Count(q, <<" ","O","R"," ">>) = n - 1 + (IF mode = {"tag"} THEN 1 ELSE 0)

\* Tag-key mode without a value over two locations: the key-only tag predicate
\* after a location clause of two disjuncts.
C23_Witness ==
    /\ resolver.pc = "returned"
    /\ resolver.fn = "searchAssets"
    /\ resolver.labelKey = <<>>
    /\ resolver.tagKey # <<>>
    /\ resolver.tagValue = <<>>
    /\ Len(resolver.locations) = 2
    /\ HasPrefix(resolver.result, <<"l","o","c","a","t","i","o","n",":","(","u","s","-","w","e","s","t","1"," ","O","R"," ","u","s","-","e","a","s","t","1",")"," ","A","N","D"," ","(","t","a","g","K","e","y","s",":">>)

\* C24: the registration id is the display name with "_" replaced by "-", cut
\* to at most 50 runes, then "-" and the part of the twin id after its last
\* hyphen (for a twin id that has one); and the whole id is at most 63 runes
\* long, for every display name and twin id.
C24_RegistrationIdShapeAndLength ==
    (resolver.pc = "returned" /\ resolver.fn = "RegistrationId") =>
        LET twinId == Split(resolver.discoveredName, "/")[6]
            name   == ReplaceAll(resolver.displayName, "_", "-")
        IN  /\ Contains(twinId, <<"-">>) =>
                  resolver.result =
                      SubSeq(name, 1, Min(Len(name), 50)) \o <<"-">> \o AfterLast(twinId, "-")
            /\ Len(resolver.result) <= 63

\* The Create calls a run has issued for the registration of a resource.
RegisterCalls(r) ==
    {k \in 1..Len(run[r].trace) : run[r].trace[k].op \in {"CreateService", "CreateWorkload"}}

\* C25: a resource is classified discoveredWorkload exactly when its asset type
\* is one of the fixed workload list, discoveredService for every other type
\* (unknown ones included), and the Create issued for it is CreateWorkload
\* exactly when the twin its lookup found is a discovered workload, which for
\* an asset of the inventory is exactly when its type is of the workload list.
C25_CreateFollowsClassification ==
    \A r \in Runs : \A k \in RegisterCalls(r) :
        LET call  == run[r].trace[k]
            type  == AssetPool[assets[call.i]].AssetType
            twins == {f.name : f \in {g \in run[r].found : g.i = call.i}}
        IN  /\ twins # {}
            /\ \A twin \in twins :
                  call.op = "CreateWorkload" <=> Split(twin, "/")[5] = r_discoveredWorkloads
            /\ entry = "assets" => (call.op = "CreateWorkload" <=> type \in WORKLOADS)

\* A run that registered a workload and a service of a type outside the list.
C25_Witness ==
    \E r \in Runs :
        /\ entry = "assets"
        /\ \E k \in RegisterCalls(r) :
              /\ run[r].trace[k].op = "CreateWorkload"
              /\ AssetPool[assets[run[r].trace[k].i]].AssetType \in WORKLOADS
        /\ \E k \in RegisterCalls(r) :
              /\ run[r].trace[k].op = "CreateService"
              /\ AssetPool[assets[run[r].trace[k].i]].AssetType
                    = "compute.googleapis.com/ForwardingRule"

\* C26: the validation of the generate command accepts a command line with a
\* valid parent, at least one location and exactly one of label-key, tag-key or
\* contains and no other flag, and rejects one whose parent is missing, that
\* gives no location, that gives no grouping mode, or that gives label-value
\* or tag-value without its key.
C26_GenerateArgsValidation ==
    (resolver.pc = "returned" /\ resolver.fn = "GenAppsCmd.Args") =>
        LET given    == resolver.flags
            rejected == resolver.result.args # "" \/ resolver.result.groups # ""
        IN  /\ ( /\ IsValidResourceFormat(resolver.parent)
                 /\ IsFolder(resolver.parent) => resolver.managementProject # <<>>
                 /\ Len(resolver.locations) >= 1
                 /\ Cardinality(given) = 1
                 /\ given \subseteq {"label-key", "tag-key", "contains"}
                 /\ resolver.appName = <<>> ) => ~rejected
            /\ ( \/ resolver.parent = <<>>
                 \/ Len(resolver.locations) = 0
                 \/ given \cap GroupingModes = {}
                 \/ "label-value" \in given /\ "label-key" \notin given
                 \/ "tag-value" \in given /\ "tag-key" \notin given ) => rejected

\* ------------------------------------------------- the claims on the report

\* The step of a resource's processing a catalog call belongs to.
Phase(op) ==
    CASE op = "Lookup" -> 1
      [] op = "GetApplication" -> 2
      [] op = "CreateApplication" -> 3
      [] op = "getOrCreate.ok" -> 4
      [] OTHER -> 5

\* The positions in the asset list, in increasing order, of the resources
\* whose names a report list gives: one for each triple.
InDiscoveryOrder(list) ==
    \E idxs \in [1..(Len(list) \div 3) -> 1..Len(assets)] :
        /\ \A j, k \in DOMAIN idxs : j < k => idxs[j] < idxs[k]
        /\ \A k \in DOMAIN idxs : list[3 * k] = AssetPool[assets[idxs[k]]].Name

\* C27: a run handles its resources one at a time in discovery order: the
\* calls for a resource are its lookups, then the get-or-create of the
\* application, then the registration, no call for a resource follows a call
\* for a later one, and the triples of each application in the report are in
\* discovery order.
C27_SequentialInDiscoveryOrder ==
    \A r \in Runs :
        LET t == run[r].trace
        IN  /\ \A k \in 1..(Len(t) - 1) :
                  \/ t[k].i < t[k + 1].i
                  \/ /\ t[k].i = t[k + 1].i
                     /\ \/ Phase(t[k].op) < Phase(t[k + 1].op)
                        \/ t[k].op = "Lookup" /\ t[k + 1].op = "Lookup"
            /\ \A k \in 1..Len(t) :
                  /\ t[k].op = "GetApplication" =>
                        k > 1 /\ t[k - 1].op = "Lookup" /\ t[k - 1].i = t[k].i
                  /\ Phase(t[k].op) = 5 =>
                        k > 1 /\ t[k - 1].op = "getOrCreate.ok" /\ t[k - 1].i = t[k].i
            /\ entry = "assets" =>
                  \A a \in Apps : InDiscoveryOrder(run[r].generatedApplications[a])

\* A run that looked up, got or created the application of, and registered two
\* resources of one application, one after the other.
C27_Witness ==
    \E r \in Runs : \E a \in Apps :
        /\ entry = "assets"
        /\ run[r].pc = "done"
        /\ Len(run[r].generatedApplications[a]) = 6
        /\ run[r].generatedApplications[a][3] # run[r].generatedApplications[a][6]
        /\ \A i \in 1..2 : \E k \in 1..Len(run[r].trace) :
              run[r].trace[k].i = i /\ Phase(run[r].trace[k].op) = 5

\* The triples of the first n resources of the asset list whose twin the run
\* found and whose application is a, in the order of the list.
RECURSIVE Triples(_, _, _)
Triples(r, a, n) ==
    IF n = 0 THEN <<>>
    ELSE LET asset == AssetPool[assets[n]]
             twins == {f \in run[r].found : f.i = n}
             type  == IF asset.AssetType \in WORKLOADS THEN "discoveredWorkload"
                      ELSE "discoveredService"
         IN  Triples(r, a, n - 1) \o
                (IF twins # {} /\ asset.app = a
                 THEN <<AfterLast((CHOOSE f \in twins : TRUE).name, "/"), type, asset.Name>>
                 ELSE <<>>)

\* C28: at every point of processAssets each report list has a length that is
\* a multiple of 3 and is, in order, exactly one (discovered id, type, resource
\* name) triple for each resource processed so far whose twin was found and
\* whose application name is the list's key; resources that share a name lose
\* no triple.
C28_ReportIsTriplesOfFound ==
    \A r \in Runs : \A a \in Apps :
        entry = "assets" =>
            /\ Len(run[r].generatedApplications[a]) % 3 = 0
            /\ run[r].generatedApplications[a] = Triples(r, a, Len(assets))
            /\ \A f \in run[r].found : f.i <= run[r].idx /\ f.i <= Len(assets)

\* Two resources of one application, the first a service and the second a
\* workload, both in the report of a run that went through its list.
C28_Witness ==
    \E r \in Runs : \E a \in Apps :
        /\ entry = "assets"
        /\ run[r].pc = "done"
        /\ Cardinality({f.i : f \in run[r].found}) = 2
        /\ Len(run[r].generatedApplications[a]) = 6
        /\ run[r].generatedApplications[a][2] # run[r].generatedApplications[a][5]

C30_CreateOnlyAfterNotFound ==
    \A r \in Runs :
        LET t == run[r].trace
        IN  \A k \in 1..Len(t) :
              /\ t[k].op = "CreateApplication" =>
                    /\ k > 1
                    /\ t[k - 1].op = "GetApplication"
                    /\ t[k - 1].i = t[k].i
                    /\ t[k - 1].arg = t[k].arg
                    /\ t[k - 1].code = "NotFound"
              /\ (t[k].op = "GetApplication" /\ t[k].code = "OK") =>
                    /\ k < Len(t)
                    /\ t[k + 1].op = "getOrCreate.ok"
                    /\ t[k + 1].i = t[k].i
                    /\ \A j \in 1..Len(t) : t[j].op = "CreateApplication" => t[j].i # t[k].i
                    /\ Cardinality({a \in applications :
                                       a.name = t[k].arg /\ a.location = appLocation}) = 1
              /\ (t[k].op = "GetApplication" /\ t[k].code \notin {"OK", "NotFound"}) =>
                    /\ k = Len(t)
                    /\ run[r].pc = "done"
                    /\ run[r].err = "error creating application"

\* A run whose first call issued the Create after NOT_FOUND and whose later
\* call for the same name got the application from the Get.
C30_Witness ==
    \E r \in Runs : \E j, k \in 1..Len(run[r].trace) :
        LET t == run[r].trace
        IN  /\ j < k
            /\ t[j].op = "GetApplication" /\ t[j].code = "NotFound"
            /\ t[j + 1].op = "CreateApplication"
            /\ t[k].op = "GetApplication" /\ t[k].code = "OK" /\ t[k].arg = t[j].arg

\* ------------------------------------------- the claims on the entry points

\* How often a value occurs in a list.
Occurrences(list, v) == Cardinality({k \in 1..Len(list) : list[k] = v})

\* The triples of a report that name a resource.
TriplesNaming(report, name) ==
    {<<a, k>> \in Apps \X (1..Len(AssetPool)) :
        3 * k <= Len(report[a]) /\ report[a][3 * k] = name}

\* C31: GenerateFromAll issues the label search, the tag search and the
\* Kubernetes scan in that order, before any catalog call, and processes the
\* concatenation of their results as it is: when the run has gone through its
\* list with no call failing, a resource that k of the searches returned has
\* been looked up at k positions of the list and, when the catalog holds its
\* twin, has k triples in the report, and the run has returned without error.
C31_SearchesConcatenated ==
    LET t == run[1].trace
        searched == \A k \in 1..3 : k <= Len(t) /\ t[k].i = 0
        results == t[1].arg \o t[2].arg \o t[3].arg
    IN  /\ \A k \in 1..Len(t) :
              /\ t[k].op = "searchAssets.labels" => k = 1
              /\ t[k].op = "searchAssets.tags" => k = 2 /\ t[1].op = "searchAssets.labels"
              /\ t[k].op = "searchKubernetes" => k = 3 /\ t[2].op = "searchAssets.tags"
              /\ t[k].i > 0 => k > 3 /\ t[3].op = "searchKubernetes"
        /\ (searched /\ run[1].err # "error searching assets") => assets = results
        /\ (searched /\ run[1].pc = "done" /\ faults = 0 /\ results # <<>>) =>
              /\ run[1].err = ""
              /\ \A p \in 1..Len(AssetPool) :
                    LET k == Occurrences(results, p)
                    IN  /\ Cardinality({i \in 1..Len(assets) :
                                           assets[i] = p /\ LookupCalls(1, i) # {}}) = k
                        /\ AssetPool[p].twin # <<>> =>
                              Cardinality(TriplesNaming(run[1].generatedApplications,
                                                        AssetPool[p].Name)) = k

\* Resource 3 was returned by all three searches: three lookups, three triples,
\* three registrations attempted, and the run returned without error.
C31_Witness ==
    /\ run[1].pc = "done"
    /\ run[1].err = ""
    /\ faults = 0
    /\ ~reportOnly
    /\ Occurrences(assets, 3) = 3
    /\ Cardinality(TriplesNaming(run[1].generatedApplications, AssetPool[3].Name)) = 3
    /\ Cardinality({k \in 1..Len(run[1].trace) : run[1].trace[k].op = "CreateWorkload"}) = 3

\* C32: in Kubernetes-namespace mode the application name is
\* namespace-shortHash(cluster)-shortHash(project), of the namespace, the
\* cluster and the project of the resource's parent path.
C32_KubernetesName ==
    (resolver.pc = "returned" /\ resolver.fn = "getAppNameForKubernetes") =>
        resolver.result =
            resolver.namespace \o <<"-", "#">> \o resolver.cluster
                \o <<"-", "#">> \o resolver.project

\* ------------------------------------------ the claims on the worker pool

\* C33: once removeAllServices or removeAllWorkloads has returned, with nil
\* or with an error, none of the deletion workers it spawned is still there.
C33_NoWorkerOutlivesRemoveAll ==
    /\ del.pc \in {"deleteApp", "deleteAppWait", "done"} => del.workers = {}
    /\ (del.pc \in {"list", "groupWait"} /\ del.kind = "workload") => WorkersOf("service") = {}

\* C34: deleteApp terminates, with success or with an error, when every
\* catalog call and every wait returns: the worker pool never deadlocks.
C34_DeleteAppTerminates == <>(del.pc = "done")

\* deleteApp returned an error for an application with more children than the
\* pool has slots, after a deletion failed and the others were cancelled.
C34_Witness ==
    /\ del.pc = "done"
    /\ del.err = "group"
    /\ del.listedN["service"] > maxConcurrentDeletions
    /\ del.workers = {}

\* ------------------------------------------ the claims on registration

\* C35: within one application two different discovered twins of a kind never
\* derive the same registration id, and a registration answered ALREADY_EXISTS
\* is that of a twin the application holds already.
C35_DistinctTwinsDistinctIds ==
    \A r \in Runs :
        /\ \A f, g \in run[r].found :
              LET a == AssetPool[assets[f.i]]
                  b == AssetPool[assets[g.i]]
              IN  (/\ entry = "assets"
                   /\ a.app = b.app
                   /\ f.name # g.name
                   /\ Split(f.name, "/")[5] = Split(g.name, "/")[5])
                  => getServiceWorkloadId(Split(f.name, "/")[6],
                                          truncateName(AfterLast(a.Name, "/")))
                       # getServiceWorkloadId(Split(g.name, "/")[6],
                                              truncateName(AfterLast(b.Name, "/")))
        /\ (run[r].lastReg.submit = "AlreadyExists" /\ run[r].lastReg.result = "ok") =>
              \E c \in registrations :
                  /\ c.discovered = run[r].discoveredName
                  /\ c.location = appLocation

\* C36: getAppNameFromAsset called twice on the same resource returns the same
\* application name both times, also when several labels qualify with
\* different valid values.
C36_AutoDetectDeterministic ==
    resolver.pc = "returnedAgain" => resolver.second = resolver.result

\* C37: the report of GenerateAppsCloudLogging holds, under the application
\* name, one triple for every log-derived asset whose twin was found so far.
C37_LogReportAccumulates ==
    \A r \in Runs :
        entry = "logs" =>
            Len(run[r].generatedApplications[logLabelValue])
                = 3 * Cardinality({f.i : f \in run[r].found})

\* C38: for every non-empty list of project ids the query of searchProject
\* restricts the results to them: it names each project once, as
\* projects/<id>, and names no other project.
C38_ProjectQueryRestricts ==
    (resolver.pc = "returned" /\ resolver.fn = "searchProject") =>
        /\ \A k \in 1..Len(resolver.projectIds) :
              Count(resolver.result, r_projects \o <<"/">> \o resolver.projectIds[k]) = 1
        /\ Count(resolver.result, r_projects \o <<"/">>) = Len(resolver.projectIds)

====
